---- MODULE Spec2Model ----
(***************************************************************************)
(* NetNeighbors: the interactive session graph of the two Dash explorers   *)
(* (discovery_network_vis.py, the Cytoscape explorer with the large-result *)
(* confirmation, and force_graph_vis.py, the force-graph explorer).        *)
(*                                                                         *)
(* Every server callback is one atomic action: Dash hands the callback the *)
(* State properties of the page and writes its Outputs back in one update. *)
(* The server keeps nothing of a session but hop_counter and no callback   *)
(* reads whether a dialog is open: each request is served when it arrives, *)
(* so the callbacks may run in any order.  Only the two answers of         *)
(* confirm-dialog need the dialog to be displayed.                         *)
(***************************************************************************)
EXTENDS Integers, Sequences, FiniteSets, TLC

VARIABLES
    app,                \* which of the two programs is running
    elements,           \* cytoscape-graph.elements: one list of nodes and edges
    pending,            \* dcc.Store pending-elements (None or {nodes, edges})
    confirm_displayed,  \* confirm-dialog.displayed
    hop_counter,        \* explorer.hop_counter
    graph_nodes,        \* force graph: dcc.Store graph-nodes
    graph_links,        \* force graph: dcc.Store graph-links
    example_loading,    \* dcc.Store example-loading (None or the example type)
    example_confirm,    \* example-confirm.displayed
    bridge_graph,       \* GraphBridge.graph: the loaded web graph
    bridge_call,        \* the arguments of a GraphBridge discovery call
    discover_results,   \* what GraphBridge.discover returned (None before)
    fast_results,       \* what GraphBridge.discover_fast returned (None before)
    gateway,            \* GraphBridge.gateway (None or the JavaGateway)
    bridge,             \* app.py: the global bridge (None until get_bridge)
    bridge_query,       \* the last query made of the bridge and its outcome
    explorer_call,      \* the arguments of a discover_neighbors call
    built,              \* what discover_neighbors returned (None before)
    ls_links,           \* link_spam: the links of the web graph behind wg
    ls_call,            \* link_spam: the arguments of build_network
    ls_graph,           \* link_spam: the DiGraph returned (None before)
    vertices_file,      \* the lines of the domain-vertices file
    domain_set,         \* WebgraphDiscovery._domain_set (None or the set)
    val_call,           \* the seed_domains given to validate_seeds
    val_result,         \* what the last validate_seeds returned (None before)
    lines_read,         \* lines of the vertices file the last call read
    validations,        \* validate_seeds calls made
    import_call,        \* import_and_add: the textarea lines (None before)
    validation_report,  \* validation-report: displayed and message
    active_session,     \* the browser session whose stores are in use
    other_session,      \* the stores held by the other browser session
    gb_global,          \* app.py: the global bridge, as the requests see it
    gb_objects,         \* the GraphBridge objects constructed so far
    gb_request,         \* each request thread: its place in get_bridge
    wd_discover,        \* WebgraphDiscovery.discover: the call and its place
    tmp_seeds_files     \* the seeds_*.txt files in the temporary directory

vars == <<app, elements, pending, confirm_displayed, hop_counter,
          graph_nodes, graph_links, example_loading, example_confirm,
          bridge_graph, bridge_call, discover_results, fast_results,
          gateway, bridge, bridge_query, explorer_call, built,
          ls_links, ls_call, ls_graph,
          vertices_file, domain_set, val_call, val_result, lines_read,
          validations, import_call, validation_report,
          active_session, other_session, gb_global, gb_objects, gb_request,
          wd_discover, tmp_seeds_files>>

exVars == <<example_loading, example_confirm>>
brVars == <<bridge_graph, bridge_call, discover_results, fast_results>>
svcVars == <<gateway, bridge, bridge_query>>
elVars == <<explorer_call, built>>
lsVars == <<ls_links, ls_call, ls_graph>>
valVars == <<vertices_file, domain_set, val_call, val_result, lines_read,
             validations>>
impVars == <<import_call, validation_report>>
sesVars == <<active_session, other_session>>
gbVars == <<gb_global, gb_objects, gb_request>>
wdVars == <<wd_discover, tmp_seeds_files>>
laterVars == <<impVars, sesVars, gbVars, wdVars>>
extVars == <<svcVars, elVars, lsVars, valVars, laterVars>>
sessionVars == <<elements, pending, confirm_displayed, hop_counter,
                 graph_nodes, graph_links, exVars>>

cyVars == <<elements, pending, confirm_displayed>>
fgVars == <<graph_nodes, graph_links>>

(***************************************************************************)
(* Bounds of the exploration.                                              *)
(***************************************************************************)
MaxHop == 2        \* discover calls explored per run (caps hop_counter)
MaxInput == 2      \* most lines typed into the add-to-viewport textarea
ScaledThreshold == 2

(***************************************************************************)
(* NODE_WARNING_THRESHOLD is 150 in the source.  The explored runs scale   *)
(* it down, and the web graph below is built relative to it, so that       *)
(* results of exactly NODE_WARNING_THRESHOLD and of one more new node both *)
(* occur.  No other number of the programs depends on its value.           *)
(***************************************************************************)
NODE_WARNING_THRESHOLD == ScaledThreshold

(***************************************************************************)
(* Python None / Optional: the empty sequence is None, <<x>> is the value. *)
(***************************************************************************)
None == <<>>
Some(x) == <<x>>

(***************************************************************************)
(* The web graph behind CCWebgraph.  Domains are opaque ids here.  Hub 1   *)
(* is linked to by exactly NODE_WARNING_THRESHOLD bulk domains, hub 2 by   *)
(* the same domains and by domain 3, domain 3 by hub 1.  Domain 4 is well- *)
(* formed but unknown to the store.                                        *)
(***************************************************************************)
FirstBulk == 11
Bulk == FirstBulk..(FirstBulk + NODE_WARNING_THRESHOLD - 1)
StoreDomains == {1, 2, 3} \cup Bulk
MaxDomain == FirstBulk + NODE_WARNING_THRESHOLD - 1

Predecessors(v) ==
    CASE v = 1 -> Bulk
      [] v = 2 -> Bulk \cup {3}
      [] v = 3 -> {1}
      [] OTHER -> {}

Successors(v) == {w \in StoreDomains : v \in Predecessors(w)}

Directions == {"backlinks", "outlinks"}

Neighbors(v, direction) ==
    IF direction = "backlinks" THEN Predecessors(v) ELSE Successors(v)

\* the members of a set of domains in ascending order
AscSeq(S) == SelectSeq([i \in 1..MaxDomain |-> i], LAMBDA d : d \in S)

RECURSIVE Flatten(_)
Flatten(ss) == IF ss = <<>> THEN <<>> ELSE Head(ss) \o Flatten(Tail(ss))

(***************************************************************************)
(* CCWebgraph.discover: resolved seeds, per-seed incidence counts of the   *)
(* non-seed neighbours, threshold, order by connections descending then    *)
(* domain, and one edge per observed (seed, neighbour) link.               *)
(***************************************************************************)
ConnectionCount(d, seeds, direction) ==
    Cardinality({s \in seeds : d \in Neighbors(s, direction)})

Discover(seed_domains, min_connections, direction) ==
    LET seeds == seed_domains \cap StoreDomains
        k == Cardinality(seeds)
        cnt == [d \in StoreDomains |-> ConnectionCount(d, seeds, direction)]
        level(c) == SelectSeq([i \in 1..MaxDomain |-> i],
                       LAMBDA d : /\ d \in StoreDomains
                                  /\ d \notin seeds
                                  /\ cnt[d] = c
                                  /\ c >= min_connections)
        order == Flatten([i \in 1..k |-> level(k + 1 - i)])
        ss == AscSeq(seeds)
        pairs == [p \in 1..(Len(order) * k) |->
                     <<order[((p - 1) \div k) + 1], ss[((p - 1) % k) + 1]>>]
        linked == SelectSeq(pairs,
                     LAMBDA pr : pr[1] \in Neighbors(pr[2], direction))
    IN  [nodes |-> [i \in 1..Len(order) |->
                       [domain |-> order[i], connections |-> cnt[order[i]]]],
         edges |-> [i \in 1..Len(linked) |->
                       IF direction = "backlinks"
                       THEN <<linked[i][1], linked[i][2]>>
                       ELSE <<linked[i][2], linked[i][1]>>]]

(***************************************************************************)
(* GraphExplorer._build_elements of the Cytoscape explorer: the result as  *)
(* Cytoscape elements.  label repeats id and classes repeats type, so both *)
(* are left out of the element records.                                    *)
(***************************************************************************)
\* a faulty tagging that gives the new nodes the current hop
CyBuildNodesAtCurrentHop(result, hop) ==
    [i \in 1..Len(result.nodes) |->
        [id |-> result.nodes[i].domain,
         type |-> "discovered",
         hop |-> hop,
         connections |-> result.nodes[i].connections]]

CyBuildNodes(result, hop) ==
    [i \in 1..Len(result.nodes) |->
        [id |-> result.nodes[i].domain,
         type |-> "discovered",
         hop |-> hop + 1,
         connections |-> result.nodes[i].connections]]

\* a faulty build that links every returned domain with every seed met
CyBuildEdgesCrossProduct(result) ==
    LET sources == {result.edges[i][1] : i \in 1..Len(result.edges)}
        targets == {result.edges[i][2] : i \in 1..Len(result.edges)}
        srcs == AscSeq(sources)
        tgts == AscSeq(targets)
    IN  [p \in 1..(Len(srcs) * Len(tgts)) |->
            [source |-> srcs[((p - 1) \div Len(tgts)) + 1],
             target |-> tgts[((p - 1) % Len(tgts)) + 1]]]

CyBuildEdges(result) ==
    [i \in 1..Len(result.edges) |->
        [source |-> result.edges[i][1], target |-> result.edges[i][2]]]

IsEdge(e) == "source" \in DOMAIN e

NodesOf(els) == SelectSeq(els, LAMBDA e : ~IsEdge(e))
EdgesOf(els) == SelectSeq(els, LAMBDA e : IsEdge(e))

\* existing_ids = {e['data']['id'] for e in elements if 'source' not in e['data']}
ExistingIds(els) == {els[i].id : i \in {j \in 1..Len(els) : ~IsEdge(els[j])}}

(***************************************************************************)
(* What the user can type and click.  A textarea line is a domain in some  *)
(* spelling: lower case, upper case, or not a domain at all.               *)
(***************************************************************************)
TypedDomains == {1, 2, 3, 4}
RawLines ==
    {[name |-> d, form |-> "lower"] : d \in TypedDomains}
        \cup {[name |-> 1, form |-> "upper"], [name |-> 0, form |-> "malformed"]}

RECURSIVE SeqsUpTo(_, _)
SeqsUpTo(S, n) ==
    IF n = 0 THEN {<<>>}
    ELSE LET shorter == SeqsUpTo(S, n - 1)
         IN  shorter \cup {Append(q, x) : q \in shorter, x \in S}

TextareaInputs == SeqsUpTo(RawLines, MaxInput) \ {<<>>}

Selections(ids) == (SUBSET ids) \ {{}}

\* CB5 update_slider_max: the slider runs from 1 to max(count, 1)
SliderMax(selected) ==
    IF Cardinality(selected) > 1 THEN Cardinality(selected) ELSE 1

\* DOMAIN_RE.match(d)
DOMAIN_RE_match(raw) == raw.form # "malformed"

\* webgraph.validate_seeds: strip and lower-case, then look up in the store
Normalize(raw) == raw.name

validate_seeds(seed_domains) ==
    LET clean == [i \in 1..Len(seed_domains) |-> Normalize(seed_domains[i])]
    IN  [found |-> SelectSeq(clean, LAMBDA d : d \in StoreDomains),
         not_found |-> SelectSeq(clean, LAMBDA d : d \notin StoreDomains)]

(***************************************************************************)
(* Cytoscape explorer, CB4 import_and_add (add-viewport-btn branch).  The  *)
(* validation-report outputs do not touch the session graph and are left   *)
(* out of its state.                                                       *)
(***************************************************************************)
CySeedNode(domain) == [id |-> domain, type |-> "seed", hop |-> 0]

\* a faulty loop that never records what it has already added
AddedDomainsNoRecord(in_cc, existing_ids) ==
    SelectSeq(in_cc, LAMBDA d : d \notin existing_ids)

\* for domain in in_cc: if domain not in existing_ids: ... added.append(domain)
RECURSIVE AddedDomains(_, _)
AddedDomains(in_cc, existing_ids) ==
    IF in_cc = <<>> THEN <<>>
    ELSE IF Head(in_cc) \notin existing_ids
         THEN <<Head(in_cc)>>
                  \o AddedDomains(Tail(in_cc), existing_ids \cup {Head(in_cc)})
         ELSE AddedDomains(Tail(in_cc), existing_ids)

CyImportAndAdd(raw_domains) ==
    /\ app = "cytoscape"
    /\ LET well_formed == SelectSeq(raw_domains, DOMAIN_RE_match)
           in_cc == IF well_formed # <<>>
                    THEN validate_seeds(well_formed).found ELSE <<>>
           added == AddedDomains(in_cc, ExistingIds(elements))
       IN  elements' = elements
                  \o [i \in 1..Len(added) |-> CySeedNode(added[i])]
    /\ UNCHANGED <<app, exVars, brVars, extVars, pending, confirm_displayed, hop_counter, fgVars>>

(***************************************************************************)
(* Cytoscape explorer, CB6 context_menu_discover.                          *)
(***************************************************************************)
\* a faulty comparison that already gates a result of exactly the threshold
IsLargeResultFromThreshold(unique_nodes) ==
    Len(unique_nodes) >= NODE_WARNING_THRESHOLD

\* if len(unique_nodes) > NODE_WARNING_THRESHOLD
IsLargeResult(unique_nodes) == Len(unique_nodes) > NODE_WARNING_THRESHOLD

CyDiscoverNeighbors(seed_domains, min_conn, direction) ==
    LET result == Discover(seed_domains, min_conn, direction)
    IN  IF Len(result.nodes) > 0
        THEN [nodes |-> CyBuildNodes(result, hop_counter),
              edges |-> CyBuildEdges(result)]
        ELSE [nodes |-> <<>>, edges |-> <<>>]

\* a faulty merge that keeps every node of the result
AllNewNodes(new_nodes, els) == new_nodes

\* unique_nodes = [n for n in new_nodes if n['data']['id'] not in existing_ids]
UniqueNodes(new_nodes, els) ==
    LET existing_ids == ExistingIds(els)
    IN  SelectSeq(new_nodes, LAMBDA n : n.id \notin existing_ids)

ContextMenuDiscover(selected, direction, min_conn) ==
    /\ app = "cytoscape"
    /\ selected # {}
    /\ min_conn \in 1..SliderMax(selected)
    /\ hop_counter < MaxHop
    /\ LET new == CyDiscoverNeighbors(selected, min_conn, direction)
           unique_nodes == UniqueNodes(new.nodes, elements)
       IN  IF IsLargeResult(unique_nodes)
           THEN /\ elements' = elements
                /\ pending' = Some([nodes |-> unique_nodes, edges |-> new.edges])
                /\ confirm_displayed' = TRUE
           ELSE /\ elements' = elements \o unique_nodes \o new.edges
                /\ pending' = None
                /\ confirm_displayed' = FALSE
    /\ hop_counter' = hop_counter + 1
    /\ UNCHANGED <<app, exVars, brVars, extVars, fgVars>>

(***************************************************************************)
(* Cytoscape explorer, CB10 confirm_large_discovery.  The callback runs    *)
(* when the user presses OK in confirm-dialog: the dialog closes and its   *)
(* submit_n_clicks is incremented, so submit_clicks is never zero here.    *)
(***************************************************************************)
\* a faulty confirmation that appends the staged nodes as they were staged
MergePendingNodesAsStaged(nodes, existing_ids) == nodes

\* for node in pending['nodes']: if node['data']['id'] not in existing_ids: ...
RECURSIVE MergePendingNodes(_, _)
MergePendingNodes(nodes, existing_ids) ==
    IF nodes = <<>> THEN <<>>
    ELSE IF Head(nodes).id \notin existing_ids
         THEN <<Head(nodes)>>
                  \o MergePendingNodes(Tail(nodes),
                                       existing_ids \cup {Head(nodes).id})
         ELSE MergePendingNodes(Tail(nodes), existing_ids)

confirm_large_discovery(pend, current_elements) ==
    IF pend = None
    THEN current_elements
    ELSE current_elements
             \o MergePendingNodes(pend[1].nodes, ExistingIds(current_elements))
             \o pend[1].edges

ConfirmLargeDiscovery ==
    /\ app = "cytoscape"
    /\ confirm_displayed
    /\ confirm_displayed' = FALSE
    /\ elements' = confirm_large_discovery(pending, elements)
    /\ UNCHANGED <<app, exVars, brVars, extVars, pending, hop_counter, fgVars>>

\* Cancel in confirm-dialog: the dialog closes; no callback listens to it.
CancelLargeDiscovery ==
    /\ app = "cytoscape"
    /\ confirm_displayed
    /\ confirm_displayed' = FALSE
    /\ UNCHANGED <<app, exVars, brVars, extVars, elements, pending, hop_counter, fgVars>>

(***************************************************************************)
(* Cytoscape explorer, CB8 delete_selected_nodes.                          *)
(***************************************************************************)
\* a faulty filter that drops the selected nodes and keeps every edge
delete_nodes_keep_edges(selected_ids, current_elements) ==
    SelectSeq(current_elements,
        LAMBDA e : IsEdge(e) \/ e.id \notin selected_ids)

delete_selected_nodes(selected_ids, current_elements) ==
    SelectSeq(current_elements,
        LAMBDA e : \/ (~IsEdge(e) /\ e.id \notin selected_ids)
                   \/ (IsEdge(e) /\ e.source \notin selected_ids
                                 /\ e.target \notin selected_ids))

DeleteSelectedNodes(selected) ==
    /\ app = "cytoscape"
    /\ selected # {}
    /\ elements' = delete_selected_nodes(selected, elements)
    /\ UNCHANGED <<app, exVars, brVars, extVars, pending, confirm_displayed, hop_counter, fgVars>>

(***************************************************************************)
(* Force-graph explorer: GraphExplorer._build_elements.  connections is    *)
(* the in-degree of the domain among the result's edges.                   *)
(***************************************************************************)
InDegree(result, domain) ==
    Cardinality({i \in 1..Len(result.edges) : result.edges[i][2] = domain})

FgBuildNodes(result, hop) ==
    [i \in 1..Len(result.nodes) |->
        [id |-> result.nodes[i].domain,
         type |-> "discovered",
         hop |-> hop + 1,
         connections |-> InDegree(result, result.nodes[i].domain)]]

FgBuildLinks(result) ==
    [i \in 1..Len(result.edges) |->
        [source |-> result.edges[i][1], target |-> result.edges[i][2]]]

FgIds(nodes) == {nodes[i].id : i \in 1..Len(nodes)}

(***************************************************************************)
(* Force-graph explorer: import_and_add (add-viewport-btn branch).         *)
(***************************************************************************)
FgSeedNode(domain) ==
    [id |-> domain, type |-> "seed", hop |-> 0, connections |-> 0]

FgImportAndAdd(raw_domains) ==
    /\ app = "force"
    /\ LET well_formed == SelectSeq(raw_domains, DOMAIN_RE_match)
           in_cc == IF well_formed # <<>>
                    THEN validate_seeds(well_formed).found ELSE <<>>
           added == AddedDomains(in_cc, FgIds(graph_nodes))
       IN  graph_nodes' = graph_nodes
                  \o [i \in 1..Len(added) |-> FgSeedNode(added[i])]
    /\ UNCHANGED <<app, exVars, brVars, extVars, cyVars, hop_counter, graph_links>>

(***************************************************************************)
(* Force-graph explorer: discover_neighbors.                               *)
(***************************************************************************)
FgExplorerDiscover(seed_domains, min_conn, direction) ==
    LET result == Discover(seed_domains, min_conn, direction)
    IN  IF Len(result.nodes) > 0
        THEN [nodes |-> FgBuildNodes(result, hop_counter),
              links |-> FgBuildLinks(result)]
        ELSE [nodes |-> <<>>, links |-> <<>>]

\* for node in new_nodes: if node['id'] not in existing_ids: append, add
RECURSIVE FgMergeNodes(_, _)
FgMergeNodes(new_nodes, existing_ids) ==
    IF new_nodes = <<>> THEN <<>>
    ELSE IF Head(new_nodes).id \notin existing_ids
         THEN <<Head(new_nodes)>>
                  \o FgMergeNodes(Tail(new_nodes),
                                  existing_ids \cup {Head(new_nodes).id})
         ELSE FgMergeNodes(Tail(new_nodes), existing_ids)

\* for link in new_links: if key not in existing_links: append, add
RECURSIVE MergeLinks(_, _)
MergeLinks(new_links, existing_links) ==
    IF new_links = <<>> THEN <<>>
    ELSE LET key == <<Head(new_links).source, Head(new_links).target>>
         IN  IF key \notin existing_links
             THEN <<Head(new_links)>>
                      \o MergeLinks(Tail(new_links), existing_links \cup {key})
             ELSE MergeLinks(Tail(new_links), existing_links)

FgDiscoverNeighbors(selected_nodes, direction, min_conn) ==
    /\ app = "force"
    /\ selected_nodes # {}
    /\ hop_counter < MaxHop
    /\ LET new == FgExplorerDiscover(selected_nodes, min_conn, direction)
       IN  /\ graph_nodes' = graph_nodes
                  \o FgMergeNodes(new.nodes, FgIds(graph_nodes))
           /\ graph_links' = graph_links
                  \o MergeLinks(new.links,
                        {<<graph_links[i].source, graph_links[i].target>> :
                            i \in 1..Len(graph_links)})
    /\ hop_counter' = hop_counter + 1
    /\ UNCHANGED <<app, exVars, brVars, extVars, cyVars>>

(***************************************************************************)
(* Force-graph explorer: delete_selected.  Its third output empties the    *)
(* component's selectedNodes; the next selection is again the user's.      *)
(***************************************************************************)
FgDeleteNodes(selected_set, current_nodes) ==
    SelectSeq(current_nodes, LAMBDA n : n.id \notin selected_set)

FgDeleteLinks(selected_set, current_links) ==
    SelectSeq(current_links,
        LAMBDA l : l.source \notin selected_set /\ l.target \notin selected_set)

FgDeleteSelected(selected_nodes) ==
    /\ app = "force"
    /\ selected_nodes # {}
    /\ graph_nodes' = FgDeleteNodes(selected_nodes, graph_nodes)
    /\ graph_links' = FgDeleteLinks(selected_nodes, graph_links)
    /\ UNCHANGED <<app, exVars, brVars, extVars, cyVars, hop_counter>>

(***************************************************************************)
(* Cytoscape explorer: the example graphs.  build_network of an example    *)
(* queries the web graph; networkx_to_cytoscape turns its nodes and edges  *)
(* into elements.  The high-profile example is a list of domains and the   *)
(* links between them, the Iranian example a seed and its backlinkers.     *)
(***************************************************************************)
ExampleTypes == {"high-profile-news-network", "iranian-news-network"}

ExampleNode(domain, node_type, hop, connections) ==
    [id |-> domain, type |-> node_type, hop |-> hop,
     connections |-> connections]

ExampleEdge(src, tgt, edge_type) ==
    [source |-> src, target |-> tgt, edge_type |-> edge_type]

networkx_to_cytoscape(example_type) ==
    IF example_type = "high-profile-news-network"
    THEN <<ExampleNode(1, "seed", 0, 0), ExampleNode(3, "seed", 0, 0),
           ExampleEdge(1, 3, "internal")>>
    ELSE <<ExampleNode(3, "seed", 0, 0), ExampleNode(1, "discovered", 1, 1),
           ExampleEdge(1, 3, "external")>>

\* a faulty check that never sees existing data
cy_has_no_data(current_elements) == FALSE

\* has_data = current_elements and len([e ... if 'source' not in ...]) > 0
cy_has_data(current_elements) == NodesOf(current_elements) # <<>>

\* CB10 confirm_example_load, and CB11 load_example_graph run by the change
\* of example-loading: it loads at once unless the dialog has been opened
ConfirmExampleLoad(example_type) ==
    /\ app = "cytoscape"
    /\ LET has_data == cy_has_data(elements)
       IN  /\ example_confirm' = has_data
           /\ example_loading' = Some(example_type)
           /\ elements' = IF has_data THEN elements
                          ELSE networkx_to_cytoscape(example_type)
    /\ UNCHANGED <<app, brVars, extVars, pending, confirm_displayed, hop_counter, fgVars>>

\* CB11 load_example_graph run by OK in example-confirm
LoadExampleGraph ==
    /\ app = "cytoscape"
    /\ example_confirm
    /\ example_loading # None
    /\ example_confirm' = FALSE
    /\ elements' = networkx_to_cytoscape(example_loading[1])
    /\ UNCHANGED <<app, brVars, extVars, example_loading, pending, confirm_displayed,
                   hop_counter, fgVars>>

\* Cancel in example-confirm: the dialog closes; no callback listens to it.
CancelExampleLoad ==
    /\ app = "cytoscape"
    /\ example_confirm
    /\ example_confirm' = FALSE
    /\ UNCHANGED <<app, brVars, extVars, example_loading, cyVars, hop_counter, fgVars>>

(***************************************************************************)
(* Force-graph explorer, example loading from the pickled graphs.          *)
(***************************************************************************)
\* the nodes and links load_example_graph makes of the pickled DiGraph
FgExampleGraph(example_type) ==
    LET G == networkx_to_cytoscape(example_type)
        in_degree(n) ==
            Cardinality({i \in 1..Len(G) : IsEdge(G[i]) /\ G[i].target = n})
        ns == NodesOf(G)
        es == EdgesOf(G)
    IN  [nodes |-> [i \in 1..Len(ns) |->
                       [id |-> ns[i].id, type |-> ns[i].type,
                        hop |-> IF ns[i].type = "seed" THEN 0 ELSE 1,
                        connections |-> in_degree(ns[i].id)]],
         links |-> [i \in 1..Len(es) |->
                       [source |-> es[i].source, target |-> es[i].target]]]

\* has_data = current_nodes and len(current_nodes) > 0
fg_has_data(current_nodes) == current_nodes # <<>>

\* confirm_example_load, and load_example_graph run by the change of
\* example-loading: it loads at once unless the dialog has been opened
FgConfirmExampleLoad(example_type) ==
    /\ app = "force"
    /\ LET has_data == fg_has_data(graph_nodes)
       IN  /\ example_confirm' = has_data
           /\ example_loading' = Some(example_type)
           /\ graph_nodes' = IF has_data THEN graph_nodes
                             ELSE FgExampleGraph(example_type).nodes
           /\ graph_links' = IF has_data THEN graph_links
                             ELSE FgExampleGraph(example_type).links
    /\ UNCHANGED <<app, brVars, extVars, cyVars, hop_counter>>

\* load_example_graph run by OK in example-confirm
FgLoadExampleGraph ==
    /\ app = "force"
    /\ example_confirm
    /\ example_loading # None
    /\ example_confirm' = FALSE
    /\ graph_nodes' = FgExampleGraph(example_loading[1]).nodes
    /\ graph_links' = FgExampleGraph(example_loading[1]).links
    /\ UNCHANGED <<app, brVars, extVars, example_loading, cyVars, hop_counter>>

\* Cancel in example-confirm: the dialog closes; no callback listens to it.
FgCancelExampleLoad ==
    /\ app = "force"
    /\ example_confirm
    /\ example_confirm' = FALSE
    /\ UNCHANGED <<app, brVars, extVars, example_loading, cyVars, hop_counter, fgVars>>

(***************************************************************************)
(* GraphBridge (graph_bridge.py), the discovery behind app.py.  The web    *)
(* graph is the Java object behind py4j: a vertex id stands for its label, *)
(* vertexLabelToId answers -1 for an unknown label, and predecessors and   *)
(* successors answer a list of vertex ids in which a vertex may occur more *)
(* than once.                                                              *)
(***************************************************************************)
MaxSeeds == 2          \* most entries of seed_domains
MaxNeighbors == 2      \* most entries of one neighbour list

BridgeSeedVertices == {1, 2}
BridgeVertices == {1, 2, 3, 4}

NeighborLists(v) == SeqsUpTo(BridgeVertices \ {v}, MaxNeighbors)

\* the successor lists that go with the predecessor lists
SuccessorsOf(preds, v) ==
    Flatten([w \in 1..Cardinality(BridgeVertices) |->
                [i \in 1..Len(SelectSeq(preds[w], LAMBDA u : u = v)) |-> w]])

BridgeGraphs ==
    {[predecessors |-> preds,
      successors |-> [v \in BridgeVertices |-> SuccessorsOf(preds, v)]] :
        preds \in {[v \in BridgeVertices |->
                       IF v = 1 THEN l1 ELSE IF v = 2 THEN l2 ELSE <<>>] :
                      l1 \in NeighborLists(1), l2 \in NeighborLists(2)}}

\* a seed as it is passed in: a store or unknown domain, in some spelling
BridgeRawSeeds ==
    {[name |-> d, form |-> "lower"] : d \in BridgeSeedVertices \cup {5}}
        \cup {[name |-> 1, form |-> "upper"]}

BridgeCalls ==
    [seed_domains : SeqsUpTo(BridgeRawSeeds, MaxSeeds) \ {<<>>},
     min_connections : 1..MaxSeeds,
     direction : Directions]

vertexLabelToId(graph, label) == IF label \in BridgeVertices THEN label ELSE -1
vertexIdToLabel(graph, id) == id

\* domain.strip().lower()
domain_clean(raw) == raw.name

\* graph.predecessors(seed_id) or graph.successors(seed_id)
java_neighbors(graph, seed_id, direction) ==
    IF direction = "backlinks"
    THEN graph.predecessors[seed_id] ELSE graph.successors[seed_id]

\* valid_seeds: the cleaned seeds the graph knows, in the order given
valid_seeds(graph, seed_domains) ==
    SelectSeq([i \in 1..Len(seed_domains) |-> domain_clean(seed_domains[i])],
              LAMBDA d : vertexLabelToId(graph, d) >= 0)

seed_ids(graph, seed_domains) ==
    LET valid == valid_seeds(graph, seed_domains)
    IN  [i \in 1..Len(valid) |-> vertexLabelToId(graph, valid[i])]

SeqRange(q) == {q[i] : i \in 1..Len(q)}

(***************************************************************************)
(* GraphBridge.discover.  neighbor_counts is a dict: its entries stay in   *)
(* the order in which the neighbours were first met.                       *)
(***************************************************************************)
\* a faulty filter that counts the seeds as well
IsCountedAlways(neighbor_id, seed_id_set) == TRUE

\* if neighbor_id not in seed_id_set
IsCounted(neighbor_id, seed_id_set) == neighbor_id \notin seed_id_set

\* neighbor_counts[neighbor_id] = neighbor_counts.get(neighbor_id, 0) + 1
IncrementCount(neighbor_counts, neighbor_id) ==
    IF \E i \in 1..Len(neighbor_counts) : neighbor_counts[i].id = neighbor_id
    THEN [i \in 1..Len(neighbor_counts) |->
             IF neighbor_counts[i].id = neighbor_id
             THEN [id |-> neighbor_id, count |-> neighbor_counts[i].count + 1]
             ELSE neighbor_counts[i]]
    ELSE Append(neighbor_counts, [id |-> neighbor_id, count |-> 1])

\* for neighbor_id in neighbors: ...
RECURSIVE CountNeighbors(_, _, _)
CountNeighbors(neighbors, seed_id_set, neighbor_counts) ==
    IF neighbors = <<>> THEN neighbor_counts
    ELSE CountNeighbors(Tail(neighbors), seed_id_set,
            IF IsCounted(Head(neighbors), seed_id_set)
            THEN IncrementCount(neighbor_counts, Head(neighbors))
            ELSE neighbor_counts)

\* for i, seed_id in enumerate(seed_ids): ...
RECURSIVE CountSeeds(_, _, _, _, _)
CountSeeds(graph, ids, seed_id_set, direction, neighbor_counts) ==
    IF ids = <<>> THEN neighbor_counts
    ELSE CountSeeds(graph, Tail(ids), seed_id_set, direction,
            CountNeighbors(java_neighbors(graph, Head(ids), direction),
                           seed_id_set, neighbor_counts))

\* round(count * 100.0 / len(seed_ids), 2), in hundredths of a percent
RoundedPercentage(count, n_seeds) ==
    LET q == (count * 10000) \div n_seeds
        r == (count * 10000) % n_seeds
    IN  IF 2 * r > n_seeds THEN q + 1
        ELSE IF 2 * r < n_seeds THEN q
        ELSE IF q % 2 = 0 THEN q ELSE q + 1

\* results.sort(key=lambda x: x["connections"], reverse=True): a stable sort
RECURSIVE SortByConnections(_, _)
SortByConnections(results, top) ==
    IF top = 0 THEN <<>>
    ELSE SelectSeq(results, LAMBDA x : x.connections = top)
            \o SortByConnections(results, top - 1)

MaxConnections(results) ==
    IF results = <<>> THEN 0
    ELSE CHOOSE c \in {results[i].connections : i \in 1..Len(results)} :
            \A i \in 1..Len(results) : results[i].connections <= c

discover(graph, seed_domains, min_connections, direction) ==
    LET ids == seed_ids(graph, seed_domains)
    IN  IF ids = <<>> THEN <<>>
        ELSE LET neighbor_counts ==
                     CountSeeds(graph, ids, SeqRange(ids), direction, <<>>)
                 kept == SelectSeq(neighbor_counts,
                             LAMBDA e : e.count >= min_connections)
                 results ==
                     [i \in 1..Len(kept) |->
                         [domain |-> vertexIdToLabel(graph, kept[i].id),
                          connections |-> kept[i].count,
                          percentage |->
                              RoundedPercentage(kept[i].count, Len(ids))]]
             IN  SortByConnections(results, MaxConnections(results))

(***************************************************************************)
(* GraphBridge.discover_fast over shared_predecessors/shared_successors.   *)
(* graph.sharedPredecessors(vertices, minShared, maxShared) filters on the *)
(* Java side: the vertices that between minShared and maxShared of the     *)
(* given vertices have as a neighbour, the given vertices not excepted.    *)
(***************************************************************************)
sharedNeighbors(graph, java_ids, direction, min_shared, max_shared) ==
    LET shared(v) ==
            Cardinality({i \in 1..Len(java_ids) :
                v \in SeqRange(java_neighbors(graph, java_ids[i], direction))})
    IN  SelectSeq([i \in 1..Cardinality(BridgeVertices) |-> i],
            LAMBDA v : shared(v) >= min_shared /\ shared(v) <= max_shared)

\* domains_to_ids: the ids of the domains the graph knows
domains_to_ids(graph, domains) ==
    LET ids == [i \in 1..Len(domains) |-> vertexLabelToId(graph, domains[i])]
    IN  SelectSeq(ids, LAMBDA id : id >= 0)

\* shared_predecessors and shared_successors, told apart by the direction
shared_neighbors(graph, domains, min_shared, direction) ==
    LET ids == domains_to_ids(graph, domains)
    IN  IF ids = <<>> THEN <<>>
        ELSE LET id_list == sharedNeighbors(graph, ids, direction,
                                            min_shared, Len(ids))
             IN  [i \in 1..Len(id_list) |-> vertexIdToLabel(graph, id_list[i])]

discover_fast(graph, seed_domains, min_connections, direction) ==
    LET valid == valid_seeds(graph, seed_domains)
    IN  IF valid = <<>> THEN <<>>
        ELSE SelectSeq(shared_neighbors(graph, valid, min_connections, direction),
                       LAMBDA d : d \notin SeqRange(valid))

\* a call of discover on the loaded graph
BridgeDiscover ==
    /\ app = "bridge"
    /\ discover_results = None
    /\ discover_results' =
          Some(discover(bridge_graph, bridge_call.seed_domains,
                        bridge_call.min_connections, bridge_call.direction))
    /\ UNCHANGED <<app, sessionVars, extVars, bridge_graph, bridge_call, fast_results>>

\* a call of discover_fast on the loaded graph
BridgeDiscoverFast ==
    /\ app = "bridge"
    /\ fast_results = None
    /\ fast_results' =
          Some(discover_fast(bridge_graph, bridge_call.seed_domains,
                             bridge_call.min_connections, bridge_call.direction))
    /\ UNCHANGED <<app, sessionVars, extVars, bridge_graph, bridge_call,
                   discover_results>>

(***************************************************************************)
(* GraphBridge as a service: load_graph, shutdown and the query            *)
(* operations, each with the calls it makes to the Graph Store (the Java   *)
(* Graph object behind self.graph).  A query ends by returning a value or  *)
(* by raising; its outcome records which, and the calls made on the way.   *)
(***************************************************************************)
\* the graphs the service may load: vertex 1 has no backlink, one, or two
ServiceGraphs ==
    {g \in BridgeGraphs :
        g.predecessors[1] \in {<<>>, <<3>>, <<3, 4>>}
            /\ g.predecessors[2] = <<>>}

\* what the service is asked about: a known domain in two spellings and an
\* unknown one
ServiceRawSeeds == {raw \in BridgeRawSeeds : raw.name \in {1, 5}}
ServiceCalls == {call \in BridgeCalls :
                    SeqRange(call.seed_domains) \subseteq ServiceRawSeeds}

StoreCall(op, arg) == [op |-> op, arg |-> arg]
\* a return that has printed lines to the console on the way
ReturnedPrinting(value, calls, printed) ==
    [raised |-> None, value |-> value, calls |-> calls, printed |-> printed]
Returned(value, calls) == ReturnedPrinting(value, calls, <<>>)
Raised(error) ==
    [raised |-> Some(error), value |-> None, calls |-> <<>>, printed |-> <<>>]

\* a faulty check that looks at the gateway instead of the graph
ensure_loaded_by_gateway(self_graph, self_gateway) == self_gateway = None

\* _ensure_loaded: TRUE when it raises RuntimeError("Graph not loaded...")
ensure_loaded(self_graph, self_gateway) == self_graph = None

\* a query operation: _ensure_loaded first, then the body on self.graph
\* (an attribute of None cannot be called: AttributeError)
Query(self_graph, self_gateway, outcome) ==
    IF ensure_loaded(self_graph, self_gateway) THEN Raised("RuntimeError")
    ELSE IF self_graph = None THEN Raised("AttributeError")
    ELSE outcome

\* the vertexLabelToId calls of a loop over domains
LabelCalls(labels) ==
    [i \in 1..Len(labels) |-> StoreCall("vertexLabelToId", labels[i])]

\* the vertexIdToLabel calls of a loop over ids
IdCalls(ids) == [i \in 1..Len(ids) |-> StoreCall("vertexIdToLabel", ids[i])]

CleanAll(seed_domains) ==
    [i \in 1..Len(seed_domains) |-> domain_clean(seed_domains[i])]

domain_to_id(graph, raw) ==
    LET id == vertexLabelToId(graph, domain_clean(raw))
    IN  Returned(IF id >= 0 THEN Some(id) ELSE None,
                 LabelCalls(<<domain_clean(raw)>>))

id_to_domain(graph, id) ==
    Returned(Some(vertexIdToLabel(graph, id)), IdCalls(<<id>>))

bridge_validate_seeds(graph, seed_domains) ==
    LET cleaned == CleanAll(seed_domains)
    IN  Returned([found |-> SelectSeq(cleaned,
                      LAMBDA d : vertexLabelToId(graph, d) >= 0),
                  not_found |-> SelectSeq(cleaned,
                      LAMBDA d : ~(vertexLabelToId(graph, d) >= 0))],
                 LabelCalls(cleaned))

\* get_predecessors and get_successors, told apart by the direction
get_neighbors(graph, raw, direction) ==
    LET id == vertexLabelToId(graph, domain_clean(raw))
        lookup == LabelCalls(<<domain_clean(raw)>>)
    IN  IF id < 0 THEN Returned(<<>>, lookup)
        ELSE LET ids == java_neighbors(graph, id, direction)
             IN  Returned([i \in 1..Len(ids) |-> vertexIdToLabel(graph, ids[i])],
                          lookup
                            \o <<StoreCall(IF direction = "backlinks"
                                           THEN "predecessors"
                                           ELSE "successors", id)>>
                            \o IdCalls(ids))

SharedOp(direction) ==
    IF direction = "backlinks" THEN "sharedPredecessors" ELSE "sharedSuccessors"

\* the store calls of shared_predecessors / shared_successors
shared_neighbors_calls(graph, domains, min_shared, direction) ==
    LET ids == domains_to_ids(graph, domains)
    IN  IF ids = <<>> THEN LabelCalls(domains)
        ELSE LabelCalls(domains)
               \o <<StoreCall(SharedOp(direction), <<ids, min_shared, Len(ids)>>)>>
               \o IdCalls(sharedNeighbors(graph, ids, direction,
                                          min_shared, Len(ids)))

\* a faulty loop that asks for the neighbours of every seed, resolved or not
NeighborQueryIdsOfAll(graph, seed_domains) ==
    [i \in 1..Len(seed_domains) |->
        vertexLabelToId(graph, domain_clean(seed_domains[i]))]

\* the ids whose neighbour list discover fetches: for seed_id in seed_ids
NeighborQueryIds(graph, seed_domains) == seed_ids(graph, seed_domains)

\* the store calls of discover
discover_calls(graph, seed_domains, min_connections, direction) ==
    LET lookups == LabelCalls(CleanAll(seed_domains))
        queried == NeighborQueryIds(graph, seed_domains)
        ids == seed_ids(graph, seed_domains)
        kept == SelectSeq(CountSeeds(graph, ids, SeqRange(ids), direction, <<>>),
                          LAMBDA e : e.count >= min_connections)
    IN  IF ids = <<>> THEN lookups
        ELSE lookups
               \o [i \in 1..Len(queried) |->
                      StoreCall(IF direction = "backlinks"
                                THEN "predecessors" ELSE "successors",
                                queried[i])]
               \o IdCalls([i \in 1..Len(kept) |-> kept[i].id])

\* progress is printed every ProgressEvery seeds and after the last one
ProgressEvery == 100

\* what discover prints to the console
discover_printed(graph, seed_domains, min_connections, direction) ==
    LET ids == seed_ids(graph, seed_domains)
        neighbor_counts ==
            CountSeeds(graph, ids, SeqRange(ids), direction, <<>>)
        results == discover(graph, seed_domains, min_connections, direction)
        progress == SelectSeq([i \in 1..Len(ids) |-> i],
                        LAMBDA i : i % ProgressEvery = 0 \/ i = Len(ids))
    IN  IF ids = <<>>
        THEN <<[text |-> "No valid seed domains found in graph"]>>
        ELSE <<[text |-> "Processing seed domains...", n |-> Len(ids)]>>
               \o [k \in 1..Len(progress) |->
                      [text |-> "Processed seeds...", n |-> progress[k],
                       of |-> Len(ids)]]
               \o <<[text |-> "Found unique neighbor domains",
                      n |-> Len(neighbor_counts)],
                     [text |-> "Found domains with >= connections",
                      n |-> Len(results), min |-> min_connections]>>

\* the store calls of discover_fast
discover_fast_calls(graph, seed_domains, min_connections, direction) ==
    LET lookups == LabelCalls(CleanAll(seed_domains))
        valid == valid_seeds(graph, seed_domains)
    IN  IF valid = <<>> THEN lookups
        ELSE lookups
               \o shared_neighbors_calls(graph, valid, min_connections,
                                         direction)

\* inputs of the query operations
DomainLists == SeqsUpTo({1, 5}, MaxSeeds)
MinSharedChoices == {None} \cup {Some(m) : m \in 1..MaxSeeds}

\* what a query leaves behind: the operation, its arguments, the graph it
\* ran on and how it ended
QueryRecord(op, args, outcome) ==
    [op |-> op, args |-> args, self_graph |-> bridge_graph,
     raised |-> outcome.raised, value |-> outcome.value,
     calls |-> outcome.calls, printed |-> outcome.printed]

RunQuery(op, args, outcome) ==
    /\ app = "service"
    /\ bridge_query' =
          Some(QueryRecord(op, args, Query(bridge_graph, gateway, outcome)))
    /\ UNCHANGED <<app, sessionVars, brVars, elVars, lsVars, valVars, laterVars, gateway, bridge>>

\* load_graph: the gateway is started, then Graph(graph_base) is built; the
\* constructor may raise, and then self.graph stays what it was
LoadGraph ==
    /\ app = "service"
    /\ gateway' = Some("JavaGateway")
    /\ \/ bridge_graph' \in ServiceGraphs
       \/ UNCHANGED bridge_graph
    /\ UNCHANGED <<app, sessionVars, bridge_call, discover_results,
                   fast_results, bridge, bridge_query, elVars, lsVars, valVars, laterVars>>

\* shutdown: nothing without a gateway
Shutdown ==
    /\ app = "service"
    /\ IF gateway # None
       THEN gateway' = None /\ bridge_graph' = None
       ELSE UNCHANGED <<gateway, bridge_graph>>
    /\ UNCHANGED <<app, sessionVars, bridge_call, discover_results,
                   fast_results, bridge, bridge_query, elVars, lsVars, valVars, laterVars>>

QueryDomainToId(raw) ==
    RunQuery("domain_to_id", raw, domain_to_id(bridge_graph, raw))

QueryIdToDomain(id) ==
    RunQuery("id_to_domain", id, id_to_domain(bridge_graph, id))

QueryValidateSeeds(seed_domains) ==
    RunQuery("validate_seeds", seed_domains,
             bridge_validate_seeds(bridge_graph, seed_domains))

QueryGetPredecessors(raw) ==
    RunQuery("get_predecessors", raw,
             get_neighbors(bridge_graph, raw, "backlinks"))

QueryGetSuccessors(raw) ==
    RunQuery("get_successors", raw,
             get_neighbors(bridge_graph, raw, "outlinks"))

\* shared_predecessors / shared_successors: min_shared None is len(ids)
QueryShared(op, domains, min_shared, direction) ==
    LET ids == domains_to_ids(bridge_graph, domains)
        min == IF min_shared = None THEN Len(ids) ELSE min_shared[1]
    IN  RunQuery(op, [domains |-> domains, min_shared |-> min_shared],
                 Returned(shared_neighbors(bridge_graph, domains, min,
                                           direction),
                          shared_neighbors_calls(bridge_graph, domains, min,
                                                 direction)))

QuerySharedPredecessors(domains, min_shared) ==
    QueryShared("shared_predecessors", domains, min_shared, "backlinks")

QuerySharedSuccessors(domains, min_shared) ==
    QueryShared("shared_successors", domains, min_shared, "outlinks")

QueryDiscover(call) ==
    RunQuery("discover", call,
             ReturnedPrinting(
                 discover(bridge_graph, call.seed_domains,
                          call.min_connections, call.direction),
                 discover_calls(bridge_graph, call.seed_domains,
                                call.min_connections, call.direction),
                 discover_printed(bridge_graph, call.seed_domains,
                                  call.min_connections, call.direction)))

QueryDiscoverFast(call) ==
    RunQuery("discover_fast", call,
             Returned(discover_fast(bridge_graph, call.seed_domains,
                                    call.min_connections, call.direction),
                      discover_fast_calls(bridge_graph, call.seed_domains,
                                          call.min_connections,
                                          call.direction)))

(***************************************************************************)
(* app.py: discover_domains, the handler of the Gradio form.  It returns   *)
(* a table and a status line; the status is kept as its parts.             *)
(***************************************************************************)
MaxAppSeeds == 10000

\* a line of the seeds textbox: a raw seed, a blank line, or a text that is
\* no domain name (it is no label of the Graph Store)
BlankLine == [name |-> 0, form |-> "blank"]
MalformedLine == [name |-> 0, form |-> "malformed"]
SeedLines == ServiceRawSeeds \cup {BlankLine, MalformedLine}

\* the choices of the direction radio
DirectionChoices ==
    {"Backlinks (who links TO seeds)", "Outlinks (who seeds link TO)"}

\* "backlinks" if "backlinks" in direction.lower() else "outlinks"
direction_val(direction) ==
    IF direction = "Backlinks (who links TO seeds)"
    THEN "backlinks" ELSE "outlinks"

\* [s.strip().lower() for s in seeds_text.strip().split('\n') if s.strip()]
ParseSeeds(seeds_text) ==
    LET lines == SelectSeq(seeds_text, LAMBDA l : l.form # "blank")
    IN  [i \in 1..Len(lines) |->
            [name |-> lines[i].name,
             form |-> IF lines[i].form = "malformed" THEN "malformed"
                      ELSE "lower"]]

\* domain names as the strings they are
AsStrings(names) ==
    [i \in 1..Len(names) |-> [name |-> names[i], form |-> "lower"]]

\* a faulty status that reports an empty result as unknown seeds
NothingFoundAsNoSeeds(status_parts, n_seeds) ==
    <<[text |-> "Error: None of the domains were found in the webgraph",
       n |-> n_seeds]>>

\* status_parts.append("No domains found matching criteria")
NothingFoundStatus(status_parts, n_seeds) ==
    Append(status_parts, [text |-> "No domains found matching criteria"])

\* the handler from validate_seeds on, with the bridge that get_bridge gave
discover_with(graph, self_gateway, seeds, min_connections, direction) ==
    LET validation ==
            Query(graph, self_gateway, bridge_validate_seeds(graph, seeds))
        found == validation.value.found
        not_found == validation.value.not_found
        status_parts ==
            <<[text |-> "Found seeds in graph",
               n |-> Len(found), of |-> Len(seeds)]>>
              \o (IF not_found = <<>> THEN <<>>
                  ELSE IF Len(not_found) <= 5
                  THEN <<[text |-> "Not found:", domains |-> not_found]>>
                  ELSE <<[text |-> "Not found: domains",
                          n |-> Len(not_found)]>>)
        results == discover(graph, AsStrings(found), min_connections,
                            direction_val(direction))
    IN  IF validation.raised # None
        THEN [df |-> <<>>,
              status |-> <<[text |-> "Error:", e |-> validation.raised[1]]>>]
        ELSE IF found = <<>>
        THEN [df |-> <<>>,
              status |->
                 <<[text |->
                      "Error: None of the domains were found in the webgraph",
                    n |-> Len(seeds)]>>]
        ELSE IF results = <<>>
        THEN [df |-> <<>>,
              status |-> NothingFoundStatus(status_parts, Len(seeds))]
        ELSE [df |-> results,
              status |->
                 Append(status_parts,
                        [text |-> "Found domains with >= connections",
                         n |-> Len(results), min |-> min_connections])]

\* the store calls of the handler: those of validate_seeds, then those of
\* discover on the seeds found
discover_with_calls(graph, self_gateway, seeds, min_connections, direction) ==
    LET validation ==
            Query(graph, self_gateway, bridge_validate_seeds(graph, seeds))
    IN  IF validation.raised # None \/ validation.value.found = <<>>
        THEN validation.calls
        ELSE validation.calls
               \o discover_calls(graph, AsStrings(validation.value.found),
                                 min_connections, direction_val(direction))

AppRecord(seeds_text, min_connections, direction, graph, returned, calls) ==
    [op |-> "discover_domains",
     args |-> [seeds_text |-> seeds_text, min_connections |-> min_connections,
               direction |-> direction],
     self_graph |-> graph, raised |-> None, value |-> returned,
     calls |-> calls, printed |-> <<>>]

DiscoverDomains(seeds_text, min_connections, direction) ==
    LET seeds == ParseSeeds(seeds_text)
        Return(graph, returned, calls) ==
            bridge_query' = Some(AppRecord(seeds_text, min_connections,
                                           direction, graph, returned, calls))
    IN  /\ app = "service"
        /\ UNCHANGED <<app, sessionVars, bridge_call, discover_results,
                       fast_results, elVars, lsVars, valVars, laterVars>>
        /\ IF seeds = <<>>
           THEN /\ Return(bridge_graph,
                     [df |-> <<>>,
                      status |->
                        <<[text |->
                             "Error: Please enter at least one domain"]>>],
                     <<>>)
                /\ UNCHANGED <<gateway, bridge, bridge_graph>>
           ELSE IF Len(seeds) > MaxAppSeeds
           THEN /\ Return(bridge_graph,
                     [df |-> <<>>,
                      status |->
                        <<[text |-> "Error: Maximum domains allowed",
                           n |-> Len(seeds)]>>],
                     <<>>)
                /\ UNCHANGED <<gateway, bridge, bridge_graph>>
           ELSE IF bridge # None
           THEN \* get_bridge returns the bridge it made before
                /\ Return(bridge_graph,
                          discover_with(bridge_graph, gateway, seeds,
                                        min_connections, direction),
                          discover_with_calls(bridge_graph, gateway, seeds,
                                              min_connections, direction))
                /\ UNCHANGED <<gateway, bridge, bridge_graph>>
           ELSE \* get_bridge makes a bridge and loads the graph, or raises
                /\ bridge' = Some("GraphBridge")
                /\ \/ /\ gateway' = Some("JavaGateway")
                      /\ bridge_graph' \in ServiceGraphs
                      /\ Return(bridge_graph',
                                discover_with(bridge_graph', gateway', seeds,
                                              min_connections, direction),
                                discover_with_calls(bridge_graph', gateway',
                                                    seeds, min_connections,
                                                    direction))
                   \/ /\ gateway' \in {None, Some("JavaGateway")}
                      /\ bridge_graph' = None
                      /\ Return(None,
                                [df |-> <<>>,
                                 status |-> <<[text |-> "Error:",
                                               e |-> "load_graph"]>>],
                                <<>>)

(***************************************************************************)
(* GraphExplorer.discover_neighbors called on its own, in either explorer. *)
(***************************************************************************)
ExplorerCalls ==
    [seed_domains : Selections(StoreDomains \cup {4}),
     min_connections : 1..3,
     direction : Directions]

\* discover_neighbors of the Cytoscape explorer
CyExplorerCall ==
    /\ app = "explorer"
    /\ built = None
    /\ built' = Some(CyDiscoverNeighbors(explorer_call.seed_domains,
                                         explorer_call.min_connections,
                                         explorer_call.direction))
    /\ hop_counter' = hop_counter + 1
    /\ UNCHANGED <<app, exVars, brVars, svcVars, lsVars, valVars, laterVars, explorer_call,
                   cyVars, fgVars>>

\* discover_neighbors of the force-graph explorer
FgExplorerCall ==
    /\ app = "explorer"
    /\ built = None
    /\ built' = Some(FgExplorerDiscover(explorer_call.seed_domains,
                                        explorer_call.min_connections,
                                        explorer_call.direction))
    /\ hop_counter' = hop_counter + 1
    /\ UNCHANGED <<app, exVars, brVars, svcVars, lsVars, valVars, laterVars, explorer_call,
                   cyVars, fgVars>>

(***************************************************************************)
(* examples/link_spam.py: build_network, the set-intersection analysis of  *)
(* two seed groups (casino and misinformation domains).  wg is the         *)
(* external CCWebgraph; its discover_backlinks is taken from the Discovery *)
(* Engine contract, over the links in ls_links.                            *)
(***************************************************************************)
LsStoreDomains == 1..6
LsUnknown == 7

\* the links a web graph may have: connectors 4, 5, 6 to the seeds, and
\* seeds to seeds
LsPossibleLinks ==
    {<<4, 1>>, <<4, 2>>, <<5, 1>>, <<5, 2>>, <<5, 3>>, <<6, 2>>, <<6, 3>>,
     <<1, 2>>, <<1, 3>>, <<3, 1>>}

LsCalls ==
    [casino_domains : (SUBSET {1, 2, LsUnknown}) \ {{}},
     misinfo_domains : (SUBSET {2, 3}) \ {{}},
     min_connections : 1..2]

\* validate_domains: wg.validate_seeds, the domains the web graph knows
validate_domains(domains) == domains \cap LsStoreDomains

\* wg.discover_backlinks(seeds, min_connections)
discover_backlinks(links, seeds, min_connections) ==
    LET valid == seeds \cap LsStoreDomains
        count(d) == Cardinality({t \in valid : <<d, t>> \in links})
        returned == {d \in LsStoreDomains \ valid :
                        count(d) >= min_connections /\ count(d) > 0}
        order == AscSeq(returned)
        ss == AscSeq(valid)
        k == Len(ss)
        pairs == [p \in 1..(Len(order) * k) |->
                     <<order[((p - 1) \div k) + 1], ss[((p - 1) % k) + 1]>>]
    IN  [nodes |-> [i \in 1..Len(order) |->
                       [domain |-> order[i], connections |-> count(order[i])]],
         edges |-> SelectSeq(pairs, LAMBDA pr : pr \in links)]

\* a faulty combination that takes the backlinkers of either group
EitherBacklinkers(casino_backlinkers, misinfo_backlinkers) ==
    casino_backlinkers \cup misinfo_backlinkers

\* shared_backlinkers = casino_backlinkers & misinfo_backlinkers
SharedBacklinkers(casino_backlinkers, misinfo_backlinkers) ==
    casino_backlinkers \cap misinfo_backlinkers

\* casino_edges / misinfo_edges: backlinker -> list of targets
EdgeMap(discovery_edges, shared_backlinkers) ==
    [src \in {discovery_edges[i][1] : i \in
                 {j \in 1..Len(discovery_edges) :
                     discovery_edges[j][1] \in shared_backlinkers}} |->
        LET mine == SelectSeq(discovery_edges, LAMBDA e : e[1] = src)
        IN  [i \in 1..Len(mine) |-> mine[i][2]]]

\* edges.get(backlinker, [])
EdgeMapGet(edge_map, backlinker) ==
    IF backlinker \in DOMAIN edge_map THEN edge_map[backlinker] ELSE <<>>

\* a faulty pruning that keeps every valid seed
LinkedSeedsOfAll(edge_map, shared_backlinkers, valid) == valid

\* linked_casinos / linked_misinfo: the targets of the shared backlinkers
LinkedSeeds(edge_map, shared_backlinkers, valid) ==
    UNION {SeqRange(EdgeMapGet(edge_map, b)) : b \in shared_backlinkers}

\* a faulty total that forgets the second category
TotalOfFirst(casino_count, misinfo_count) == casino_count

\* total_connections=casino_count + misinfo_count
TotalConnections(casino_count, misinfo_count) == casino_count + misinfo_count

\* G.add_node(n, **attr) for each n: a node that exists has its attributes
\* updated
AddNodes(node, attrs) ==
    [n \in DOMAIN node \cup DOMAIN attrs |->
        IF n \in DOMAIN attrs
        THEN IF n \in DOMAIN node THEN attrs[n] @@ node[n] ELSE attrs[n]
        ELSE node[n]]

\* G.add_edge(u, v, **attr) for each target of each source of the map
AddEdges(edge, edge_map, target_type) ==
    LET keys == {<<b, t>> : b \in DOMAIN edge_map, t \in LsStoreDomains}
        new == {key \in keys : key[2] \in SeqRange(edge_map[key[1]])}
        attr == [edge_type |-> "external", target_type |-> target_type]
    IN  [key \in DOMAIN edge \cup new |->
            IF key \in new
            THEN IF key \in DOMAIN edge THEN attr @@ edge[key] ELSE attr
            ELSE edge[key]]

build_network(links, casino_domains, misinfo_domains, min_connections) ==
    LET valid_casinos == validate_domains(casino_domains)
        valid_misinfo == validate_domains(misinfo_domains)
        casino_discovery ==
            discover_backlinks(links, valid_casinos, min_connections)
        casino_backlinkers ==
            {casino_discovery.nodes[i].domain :
                i \in 1..Len(casino_discovery.nodes)}
        misinfo_discovery ==
            discover_backlinks(links, valid_misinfo, min_connections)
        misinfo_backlinkers ==
            {misinfo_discovery.nodes[i].domain :
                i \in 1..Len(misinfo_discovery.nodes)}
        shared_backlinkers ==
            SharedBacklinkers(casino_backlinkers, misinfo_backlinkers)
        casino_edges == EdgeMap(casino_discovery.edges, shared_backlinkers)
        misinfo_edges == EdgeMap(misinfo_discovery.edges, shared_backlinkers)
        linked_casinos ==
            LinkedSeeds(casino_edges, shared_backlinkers, valid_casinos)
        linked_misinfo ==
            LinkedSeeds(misinfo_edges, shared_backlinkers, valid_misinfo)
        seed_attr(node_type) == [is_seed |-> TRUE, node_type |-> node_type]
        spam_attr(b) ==
            LET casino_count == Len(EdgeMapGet(casino_edges, b))
                misinfo_count == Len(EdgeMapGet(misinfo_edges, b))
            IN  [is_seed |-> FALSE, node_type |-> "link_spam",
                 casino_connections |-> casino_count,
                 misinfo_connections |-> misinfo_count,
                 total_connections |->
                     TotalConnections(casino_count, misinfo_count)]
        n1 == AddNodes(<<>>, [n \in linked_casinos |-> seed_attr("casino")])
        n2 == AddNodes(n1, [n \in linked_misinfo |-> seed_attr("misinfo")])
        n3 == AddNodes(n2, [b \in shared_backlinkers |-> spam_attr(b)])
        e1 == AddEdges(<<>>, casino_edges, "casino")
        e2 == AddEdges(e1, misinfo_edges, "misinfo")
    IN  [node |-> n3, edge |-> e2]

BuildNetwork ==
    /\ app = "link_spam"
    /\ ls_graph = None
    /\ ls_graph' = Some(build_network(ls_links, ls_call.casino_domains,
                                      ls_call.misinfo_domains,
                                      ls_call.min_connections))
    /\ UNCHANGED <<app, sessionVars, brVars, svcVars, elVars, valVars, laterVars, ls_links,
                   ls_call>>

(***************************************************************************)
(* Seed validation of WebgraphDiscovery and of GraphBridge, on texts.  A    *)
(* text is the sequence of its characters.                                 *)
(***************************************************************************)
MaxValidations == 2    \* validate_seeds calls explored per run

\* the domains the vertices file may list, in the order of the file, each
\* with the reversed notation the file writes it in
VertexEntries ==
    << [domain |-> <<"a">>, reversed |-> <<"a">>],
       [domain |-> <<"b", ".", "a">>, reversed |-> <<"a", ".", "b">>],
       [domain |-> <<"b">>, reversed |-> <<"b">>],
       [domain |-> <<"a", ".", "b">>, reversed |-> <<"b", ".", "a">>] >>

\* a vertices file: some of the entries, one line each, split at the tabs
\* into the vertex id and the reversed domain
VertexFiles ==
    {LET kept == SelectSeq([i \in 1..Len(VertexEntries) |-> i],
                           LAMBDA i : i \in chosen)
     IN  [k \in 1..Len(kept) |-> <<k - 1, VertexEntries[kept[k]].reversed>>] :
        chosen \in (SUBSET (1..Len(VertexEntries))) \ {{}}}

\* what a user may type for a domain: either case, blanks on either side
SeedTexts ==
    {left \o core \o right :
        left \in {<<>>, <<" ">>},
        core \in {<<"a", ".", "b">>, <<"A", ".", "b">>, <<"b", ".", "a">>,
                  <<"B">>},
        right \in {<<>>, <<" ">>}}

SeedTextLists == SeqsUpTo(SeedTexts, MaxSeeds)

\* str.strip()
RECURSIVE lstrip(_)
lstrip(text) ==
    IF text # <<>> /\ Head(text) = " " THEN lstrip(Tail(text)) ELSE text

RECURSIVE rstrip(_)
rstrip(text) ==
    IF text # <<>> /\ text[Len(text)] = " "
    THEN rstrip(SubSeq(text, 1, Len(text) - 1))
    ELSE text

strip(text) == rstrip(lstrip(text))

\* str.lower()
lower(text) ==
    [i \in 1..Len(text) |->
        CASE text[i] = "A" -> "a"
          [] text[i] = "B" -> "b"
          [] OTHER -> text[i]]

\* a faulty clean-up that trims and keeps the case
strip_only(domain) == strip(domain)

\* domain_clean = domain.strip().lower()
strip_lower(domain) == lower(strip(domain))

\* str.split('.')
RECURSIVE split_dot(_)
split_dot(text) ==
    IF \A i \in 1..Len(text) : text[i] # "."
    THEN <<text>>
    ELSE LET k == CHOOSE i \in 1..Len(text) :
                     text[i] = "." /\ \A j \in 1..(i - 1) : text[j] # "."
         IN  <<SubSeq(text, 1, k - 1)>>
                \o split_dot(SubSeq(text, k + 1, Len(text)))

\* '.'.join(parts)
RECURSIVE join_dot(_)
join_dot(parts) ==
    IF parts = <<>> THEN <<>>
    ELSE IF Len(parts) = 1 THEN parts[1]
    ELSE parts[1] \o <<".">> \o join_dot(Tail(parts))

\* '.'.join(reversed(reversed_domain.split('.')))
normal_notation(reversed_domain) ==
    LET parts == split_dot(reversed_domain)
    IN  join_dot([i \in 1..Len(parts) |-> parts[Len(parts) + 1 - i]])

\* _load_domain_set: the cached set, or the set of every line of the file
load_domain_set(cache, file) ==
    IF cache # None
    THEN [domains |-> cache[1], read |-> 0]
    ELSE [domains |-> {normal_notation(file[i][2]) :
                          i \in {j \in 1..Len(file) : Len(file[j]) >= 2}},
          read |-> Len(file)]

\* graph.vertexLabelToId(label) of the graph that the vertices file describes
label_to_id(file, label) ==
    IF \E i \in 1..Len(file) : normal_notation(file[i][2]) = label
    THEN (CHOOSE i \in 1..Len(file) : normal_notation(file[i][2]) = label) - 1
    ELSE -1

\* the loop of validate_seeds, the same in both classes; known holds the
\* cleaned texts for which the class's test of the store succeeds
RECURSIVE validate_loop(_, _, _, _)
validate_loop(seed_domains, known, found, not_found) ==
    IF seed_domains = <<>>
    THEN [found |-> found, not_found |-> not_found]
    ELSE LET domain_clean_text == strip_lower(Head(seed_domains))
         IN  IF domain_clean_text \in known
             THEN validate_loop(Tail(seed_domains), known,
                                Append(found, domain_clean_text), not_found)
             ELSE validate_loop(Tail(seed_domains), known, found,
                                Append(not_found, domain_clean_text))

\* WebgraphDiscovery.validate_seeds
WdValidateSeeds ==
    /\ app = "validate"
    /\ validations < MaxValidations
    /\ LET loaded == load_domain_set(domain_set, vertices_file)
           out == validate_loop(val_call, loaded.domains, <<>>, <<>>)
       IN  /\ domain_set' = Some(loaded.domains)
           /\ lines_read' = loaded.read
           /\ val_result' = Some([by |-> "WebgraphDiscovery",
                                  found |-> out.found,
                                  not_found |-> out.not_found])
    /\ validations' = validations + 1
    /\ UNCHANGED <<app, sessionVars, brVars, svcVars, elVars, lsVars,
                   laterVars, vertices_file, val_call>>

\* GraphBridge.validate_seeds of a loaded bridge: one lookup per seed
GbValidateSeeds ==
    /\ app = "validate"
    /\ validations < MaxValidations
    /\ LET known == {d \in {strip_lower(val_call[i]) :
                                 i \in 1..Len(val_call)} :
                        label_to_id(vertices_file, d) >= 0}
           out == validate_loop(val_call, known, <<>>, <<>>)
       IN  val_result' = Some([by |-> "GraphBridge",
                               found |-> out.found,
                               not_found |-> out.not_found])
    /\ lines_read' = 0
    /\ validations' = validations + 1
    /\ UNCHANGED <<app, sessionVars, brVars, svcVars, elVars, lsVars,
                   laterVars, vertices_file, domain_set, val_call>>

(***************************************************************************)
(* import_and_add of both explorers with its validation-report outputs,    *)
(* on any textarea and any graph of seed nodes.                            *)
(***************************************************************************)
\* the seed nodes a graph may hold before domains are added
ImportStartIds == SUBSET {1, 2}

\* the condition that would also cover domains skipped as already there
ReportNeededAlsoForSkipped(total_input, n_well_formed, n_in_cc, n_added) ==
    n_added < total_input

\* if n_well_formed < total_input or n_in_cc < n_well_formed
ReportNeeded(total_input, n_well_formed, n_in_cc, n_added) ==
    n_well_formed < total_input \/ n_in_cc < n_well_formed

\* the validation-report outputs: no_report, or displayed with the message
ValidationReport(total_input, n_well_formed, n_in_cc, n_added) ==
    IF ReportNeeded(total_input, n_well_formed, n_in_cc, n_added)
    THEN [displayed |-> TRUE,
          message |-> <<[total_input |-> total_input,
                         well_formed |-> n_well_formed,
                         in_cc |-> n_in_cc,
                         added |-> n_added]>>]
    ELSE [displayed |-> FALSE, message |-> <<>>]

\* import_and_add, add-viewport-btn branch, Cytoscape explorer
CyImportReport ==
    /\ app = "cytoscape"
    /\ import_call # None
    /\ validation_report = None
    /\ LET raw_domains == import_call[1]
           well_formed == SelectSeq(raw_domains, DOMAIN_RE_match)
           in_cc == IF well_formed # <<>>
                    THEN validate_seeds(well_formed).found ELSE <<>>
           added == AddedDomains(in_cc, ExistingIds(elements))
       IN  /\ elements' = elements
                  \o [i \in 1..Len(added) |-> CySeedNode(added[i])]
           /\ validation_report' =
                  Some(ValidationReport(Len(raw_domains), Len(well_formed),
                                        Len(in_cc), Len(added)))
    /\ UNCHANGED <<app, exVars, brVars, svcVars, elVars, lsVars, valVars,
                   sesVars, gbVars, wdVars, import_call, pending, confirm_displayed,
                   hop_counter, fgVars>>

\* import_and_add, add-viewport-btn branch, force-graph explorer
FgImportReport ==
    /\ app = "force"
    /\ import_call # None
    /\ validation_report = None
    /\ LET raw_domains == import_call[1]
           well_formed == SelectSeq(raw_domains, DOMAIN_RE_match)
           in_cc == IF well_formed # <<>>
                    THEN validate_seeds(well_formed).found ELSE <<>>
           added == AddedDomains(in_cc, FgIds(graph_nodes))
       IN  /\ graph_nodes' = graph_nodes
                  \o [i \in 1..Len(added) |-> FgSeedNode(added[i])]
           /\ validation_report' =
                  Some(ValidationReport(Len(raw_domains), Len(well_formed),
                                        Len(in_cc), Len(added)))
    /\ UNCHANGED <<app, exVars, brVars, svcVars, elVars, lsVars, valVars,
                   sesVars, gbVars, wdVars, import_call, cyVars, hop_counter,
                   graph_links>>

(***************************************************************************)
(* Two browser sessions served by one process.  The stores of a session    *)
(* (elements, pending merge, dialog, graph-nodes, graph-links) live in its *)
(* browser and reach a callback as its State arguments; the explorer object *)
(* and its hop_counter are module globals of the process.                  *)
(***************************************************************************)
\* the next callback comes from the other browser session
SwitchSession ==
    /\ app \in {"cytoscape", "force"}
    /\ active_session' = 3 - active_session
    /\ other_session' =
          [elements |-> elements, pending |-> pending,
           confirm_displayed |-> confirm_displayed,
           graph_nodes |-> graph_nodes, graph_links |-> graph_links,
           hop_left |-> hop_counter]
    /\ elements' = other_session.elements
    /\ pending' = other_session.pending
    /\ confirm_displayed' = other_session.confirm_displayed
    /\ graph_nodes' = other_session.graph_nodes
    /\ graph_links' = other_session.graph_links
    /\ UNCHANGED <<app, hop_counter, exVars, brVars, svcVars, elVars, lsVars,
                   valVars, impVars, gbVars, wdVars>>

(***************************************************************************)
(* app.py get_bridge, statement by statement, called by the request        *)
(* threads of the server.  A GraphBridge object is its graph (loaded or    *)
(* not) and the number of load_graph calls made on it.                     *)
(***************************************************************************)
\* the request threads of the Gradio server
RequestThreads == {1, 2}
MaxRequests == 2       \* discover_domains requests explored per thread

\* a thread that serves no request
IdleRequest == [pc |-> "idle", target |-> None, b |-> None, served |-> 0]

GbOthers == <<app, sessionVars, brVars, svcVars, elVars, lsVars, valVars,
              impVars, sesVars, wdVars>>

AtPc(t, pc) == gb_request[t].pc = pc
GoTo(t, pc) == gb_request' = [gb_request EXCEPT ![t].pc = pc]

\* if bridge is None
BridgeIsNone(global, objects) == global = None

\* discover_domains reaches b = get_bridge()
GetBridgeCall(t) ==
    /\ app = "get_bridge"
    /\ AtPc(t, "idle")
    /\ gb_request[t].served < MaxRequests
    /\ gb_request' = [gb_request EXCEPT
                         ![t] = [pc |-> "test", target |-> None, b |-> None,
                                 served |-> @.served + 1]]
    /\ UNCHANGED <<gb_global, gb_objects, GbOthers>>

\* if bridge is None:
GetBridgeTest(t) ==
    /\ app = "get_bridge"
    /\ AtPc(t, "test")
    /\ IF BridgeIsNone(gb_global, gb_objects)
       THEN GoTo(t, "construct")
       ELSE GoTo(t, "return")
    /\ UNCHANGED <<gb_global, gb_objects, GbOthers>>

\* bridge = GraphBridge(webgraph_dir, version, jar_path)
GetBridgeConstruct(t) ==
    /\ app = "get_bridge"
    /\ AtPc(t, "construct")
    /\ gb_objects' = Append(gb_objects, [graph_loaded |-> FALSE, loads |-> 0])
    /\ gb_global' = Some(Len(gb_objects) + 1)
    /\ GoTo(t, "load")
    /\ UNCHANGED GbOthers

\* bridge.load_graph(): the call is made on the global as it is now
GetBridgeLoadCall(t) ==
    /\ app = "get_bridge"
    /\ AtPc(t, "load")
    /\ gb_objects' = [gb_objects EXCEPT ![gb_global[1]].loads = @ + 1]
    /\ gb_request' = [gb_request EXCEPT ![t].pc = "loading",
                                        ![t].target = gb_global]
    /\ UNCHANGED <<gb_global, GbOthers>>

\* load_graph sets self.graph and returns
GetBridgeLoaded(t) ==
    /\ app = "get_bridge"
    /\ AtPc(t, "loading")
    /\ gb_objects' =
          [gb_objects EXCEPT ![gb_request[t].target[1]].graph_loaded = TRUE]
    /\ GoTo(t, "return")
    /\ UNCHANGED <<gb_global, GbOthers>>

\* load_graph raises (JAR missing, JVM or graph not loadable); the
\* exception ends get_bridge and discover_domains reports it
GetBridgeLoadFails(t) ==
    /\ app = "get_bridge"
    /\ AtPc(t, "loading")
    /\ GoTo(t, "idle")
    /\ UNCHANGED <<gb_global, gb_objects, GbOthers>>

\* return bridge
GetBridgeReturn(t) ==
    /\ app = "get_bridge"
    /\ AtPc(t, "return")
    /\ gb_request' = [gb_request EXCEPT ![t].pc = "got", ![t].b = gb_global]
    /\ UNCHANGED <<gb_global, gb_objects, GbOthers>>

\* the request uses b and ends
RequestEnds(t) ==
    /\ app = "get_bridge"
    /\ AtPc(t, "got")
    /\ GoTo(t, "idle")
    /\ UNCHANGED <<gb_global, gb_objects, GbOthers>>

(***************************************************************************)
(* The specification.                                                      *)
(***************************************************************************)
\* no set-intersection analysis has been run
LsIdle ==
    /\ ls_links = {}
    /\ ls_call = None
    /\ ls_graph = None

\* nothing has been typed into an explorer's textarea
ImpIdle ==
    /\ import_call = None
    /\ validation_report = None

\* the stores of a browser session that has just loaded the page
FreshSession ==
    [elements |-> <<>>, pending |-> None, confirm_displayed |-> FALSE,
     graph_nodes |-> <<>>, graph_links |-> <<>>, hop_left |-> 0]

\* one browser session is served; a second one has loaded the page
SesIdle ==
    /\ active_session = 1
    /\ other_session = FreshSession

(***************************************************************************)
(* WebgraphDiscovery.discover: the seeds are written to a temporary file,  *)
(* the DiscoveryTool is run on it as a subprocess and its results file is  *)
(* read.  A call is followed statement by statement; what the subprocess   *)
(* and the file system answer is chosen by the step.                       *)
(***************************************************************************)
MaxDiscoverCalls == 2

\* the seed_domains and output_file a call is given
DiscoverSeedTexts == {<<"a", ".", "b">>, <<" ", "A", ".", "b", " ">>, <<"B">>}
DiscoverSeedLists == SeqsUpTo(DiscoverSeedTexts, MaxSeeds)
OutputFiles == {None, Some("output_file")}

\* what subprocess.run answers, and what os.path.exists and pd.read_csv
\* find of the results file
ToolRuns == {"returncode 0", "returncode 1", "TimeoutExpired", "OSError"}
ResultsFound == {"csv", "unreadable", "missing"}

NoDiscover ==
    [pc |-> "idle", seed_domains |-> <<>>, output_file |-> None,
     seeds_file |-> None, written |-> FALSE, results_file |-> None,
     way |-> "none", outcome |-> None, calls |-> 0]

WdIdle == wd_discover = NoDiscover /\ tmp_seeds_files = 0

WdOthers == <<app, sessionVars, brVars, svcVars, elVars, lsVars, valVars,
              impVars, sesVars, gbVars>>

WdAt(pc) == app = "discover" /\ wd_discover.pc = pc

\* seeds_fd, seeds_file = tempfile.mkstemp(suffix='.txt', prefix='seeds_')
WdDiscoverCall(seed_domains, output_file) ==
    /\ app = "discover"
    /\ wd_discover.pc \in {"idle", "done"}
    /\ wd_discover.calls < MaxDiscoverCalls
    /\ wd_discover' =
          [pc |-> "write", seed_domains |-> seed_domains,
           output_file |-> output_file, seeds_file |-> Some(<<>>),
           written |-> FALSE, results_file |-> None, way |-> "none",
           outcome |-> None, calls |-> wd_discover.calls + 1]
    /\ tmp_seeds_files' = tmp_seeds_files + 1
    /\ UNCHANGED WdOthers

\* for domain in seed_domains: f.write(domain.strip().lower() + '\n')
WdWriteSeeds ==
    /\ WdAt("write")
    /\ wd_discover' =
          [wd_discover EXCEPT
              !.pc = "results",
              !.seeds_file =
                  Some([i \in 1..Len(wd_discover.seed_domains) |->
                           strip_lower(wd_discover.seed_domains[i])]),
              !.written = TRUE]
    /\ UNCHANGED <<tmp_seeds_files, WdOthers>>

\* the write raises after some lines: except: os.close(seeds_fd); raise
WdWriteFails ==
    /\ WdAt("write")
    /\ \E k \in 0..Len(wd_discover.seed_domains) :
          wd_discover' =
              [wd_discover EXCEPT
                  !.pc = "done",
                  !.seeds_file =
                      Some([i \in 1..k |->
                               strip_lower(wd_discover.seed_domains[i])]),
                  !.way = "write failed",
                  !.outcome = Some([raised |-> TRUE, value |-> "write"])]
    /\ UNCHANGED <<tmp_seeds_files, WdOthers>>

\* the results file: output_file, /content/results.csv on Colab, or a
\* temporary file
WdResultsFile(content_exists) ==
    /\ WdAt("results")
    /\ wd_discover' =
          [wd_discover EXCEPT
              !.pc = "run",
              !.results_file =
                  IF wd_discover.output_file # None
                  THEN wd_discover.output_file
                  ELSE IF content_exists
                  THEN Some("/content/results.csv")
                  ELSE Some("results_*.csv")]
    /\ UNCHANGED <<tmp_seeds_files, WdOthers>>

\* _, results_file = tempfile.mkstemp(suffix='.csv', prefix='results_')
\* raises (no room or no temporary directory any more): the call ends here,
\* before the try statement is entered
WdResultsFileFails ==
    /\ WdAt("results")
    /\ wd_discover.output_file = None
    /\ wd_discover' =
          [wd_discover EXCEPT
              !.pc = "done",
              !.way = "mkstemp failed",
              !.outcome = Some([raised |-> TRUE, value |-> "OSError"])]
    /\ UNCHANGED <<tmp_seeds_files, WdOthers>>

\* result = subprocess.run(cmd, ..., timeout=600), and the handlers of what
\* it raises and of a non-zero return code
WdRunTool(run) ==
    /\ WdAt("run")
    /\ wd_discover' =
          IF run = "returncode 0"
          THEN [wd_discover EXCEPT !.pc = "read"]
          ELSE [wd_discover EXCEPT
                   !.pc = "finally",
                   !.way = run,
                   !.outcome =
                       Some([raised |-> TRUE,
                             value |->
                                IF run = "TimeoutExpired"
                                THEN "Discovery timed out (>10 minutes)"
                                ELSE "Discovery error"])]
    /\ UNCHANGED <<tmp_seeds_files, WdOthers>>

\* if os.path.exists(results_file): return pd.read_csv(results_file)
\* else: return an empty frame
WdReadResults(results) ==
    /\ WdAt("read")
    /\ wd_discover' =
          [wd_discover EXCEPT
              !.pc = "finally",
              !.way = results,
              !.outcome =
                  IF results = "csv"
                  THEN Some([raised |-> FALSE, value |-> "df"])
                  ELSE IF results = "missing"
                  THEN Some([raised |-> FALSE, value |-> "empty frame"])
                  ELSE Some([raised |-> TRUE, value |-> "Discovery error"])]
    /\ UNCHANGED <<tmp_seeds_files, WdOthers>>

\* finally: if os.path.exists(seeds_file): os.remove(seeds_file)
seeds_file_after_finally(seeds_file, outcome) == None

WdFinally ==
    /\ WdAt("finally")
    /\ LET left == seeds_file_after_finally(wd_discover.seeds_file,
                                            wd_discover.outcome)
       IN  /\ wd_discover' =
                 [wd_discover EXCEPT !.pc = "done", !.seeds_file = left]
           /\ tmp_seeds_files' =
                 IF wd_discover.seeds_file # None /\ left = None
                 THEN tmp_seeds_files - 1 ELSE tmp_seeds_files
    /\ UNCHANGED WdOthers

\* bridge = None and no request has come in
GbIdle ==
    /\ gb_global = None
    /\ gb_objects = <<>>
    /\ gb_request = [t \in RequestThreads |-> IdleRequest]

LaterIdle == ImpIdle /\ SesIdle /\ GbIdle /\ WdIdle

\* no vertices file is at hand and nothing has been validated
ValIdle ==
    /\ vertices_file = <<>>
    /\ domain_set = None
    /\ val_call = <<>>
    /\ val_result = None
    /\ lines_read = 0
    /\ validations = 0

\* nothing has been asked of the bridge service
ExtIdle ==
    /\ gateway = None
    /\ bridge = None
    /\ bridge_query = None
    /\ explorer_call = None
    /\ built = None
    /\ LsIdle
    /\ ValIdle
    /\ LaterIdle

Init ==
    /\ app \in {"cytoscape", "force"}
    /\ elements = <<>>
    /\ pending = None
    /\ confirm_displayed = FALSE
    /\ hop_counter = 0
    /\ graph_nodes = <<>>
    /\ graph_links = <<>>
    /\ example_loading = None
    /\ example_confirm = FALSE
    /\ bridge_graph = None
    /\ bridge_call = None
    /\ discover_results = None
    /\ fast_results = None
    /\ ExtIdle

\* min-conn-input accepts 1..100; values above the selection size find nothing
MinConnChoices(selected) == 1..SliderMax(selected)

NextCy ==
    \/ \E raw \in TextareaInputs : CyImportAndAdd(raw)
    \/ \E sel \in Selections(ExistingIds(elements)) :
          \E dir \in Directions : \E mc \in MinConnChoices(sel) :
             ContextMenuDiscover(sel, dir, mc)
    \/ ConfirmLargeDiscovery
    \/ CancelLargeDiscovery
    \/ \E sel \in Selections(ExistingIds(elements)) : DeleteSelectedNodes(sel)

NextFg ==
    \/ \E raw \in TextareaInputs : FgImportAndAdd(raw)
    \/ \E sel \in Selections(FgIds(graph_nodes)) :
          \E dir \in Directions : \E mc \in MinConnChoices(sel) :
             FgDiscoverNeighbors(sel, dir, mc)
    \/ \E sel \in Selections(FgIds(graph_nodes)) : FgDeleteSelected(sel)

Next == NextCy \/ NextFg

Spec == Init /\ [][Next]_vars

(***************************************************************************)
(* The Cytoscape explorer with its example graphs.                         *)
(***************************************************************************)
InitExamples == Init /\ app = "cytoscape"

\* one line typed at a time; nothing is deleted
NextExamples ==
    \/ \E raw \in SeqsUpTo(RawLines, 1) \ {<<>>} : CyImportAndAdd(raw)
    \/ \E sel \in Selections(ExistingIds(elements)) :
          \E dir \in Directions : \E mc \in MinConnChoices(sel) :
             ContextMenuDiscover(sel, dir, mc)
    \/ ConfirmLargeDiscovery
    \/ CancelLargeDiscovery
    \/ \E example_type \in ExampleTypes : ConfirmExampleLoad(example_type)
    \/ LoadExampleGraph
    \/ CancelExampleLoad

SpecExamples == InitExamples /\ [][NextExamples]_vars

(***************************************************************************)
(* GraphBridge discovery calls: any graph and any arguments of the bounds, *)
(* then discover and discover_fast on them.                                *)
(***************************************************************************)
InitBridge ==
    /\ app = "bridge"
    /\ elements = <<>>
    /\ pending = None
    /\ confirm_displayed = FALSE
    /\ hop_counter = 0
    /\ graph_nodes = <<>>
    /\ graph_links = <<>>
    /\ example_loading = None
    /\ example_confirm = FALSE
    /\ bridge_graph \in BridgeGraphs
    /\ bridge_call \in BridgeCalls
    /\ discover_results = None
    /\ fast_results = None
    /\ ExtIdle

NextBridge == BridgeDiscover \/ BridgeDiscoverFast

SpecBridge == InitBridge /\ [][NextBridge]_vars

(***************************************************************************)
(* The bridge as a service: it is made, loaded, queried and shut down in   *)
(* any order.                                                              *)
(***************************************************************************)
InitService ==
    /\ app = "service"
    /\ elements = <<>>
    /\ pending = None
    /\ confirm_displayed = FALSE
    /\ hop_counter = 0
    /\ graph_nodes = <<>>
    /\ graph_links = <<>>
    /\ example_loading = None
    /\ example_confirm = FALSE
    /\ bridge_graph = None
    /\ bridge_call = None
    /\ discover_results = None
    /\ fast_results = None
    /\ ExtIdle

NextService ==
    \/ LoadGraph
    \/ Shutdown
    \/ \E raw \in ServiceRawSeeds : QueryDomainToId(raw)
    \/ \E id \in BridgeVertices : QueryIdToDomain(id)
    \/ \E seed_domains \in SeqsUpTo(ServiceRawSeeds, MaxSeeds) :
          QueryValidateSeeds(seed_domains)
    \/ \E raw \in ServiceRawSeeds : QueryGetPredecessors(raw)
    \/ \E raw \in ServiceRawSeeds : QueryGetSuccessors(raw)
    \/ \E domains \in DomainLists, min_shared \in MinSharedChoices :
          QuerySharedPredecessors(domains, min_shared)
    \/ \E domains \in DomainLists, min_shared \in MinSharedChoices :
          QuerySharedSuccessors(domains, min_shared)
    \/ \E call \in ServiceCalls : QueryDiscover(call)
    \/ \E call \in ServiceCalls : QueryDiscoverFast(call)
    \/ \E seeds_text \in SeqsUpTo(SeedLines, MaxSeeds),
          min_connections \in 1..MaxSeeds, direction \in DirectionChoices :
          DiscoverDomains(seeds_text, min_connections, direction)

SpecService == InitService /\ [][NextService]_vars

(***************************************************************************)
(* discover_neighbors on any selection, threshold and direction.           *)
(***************************************************************************)
InitExplorer ==
    /\ app = "explorer"
    /\ elements = <<>>
    /\ pending = None
    /\ confirm_displayed = FALSE
    /\ hop_counter = 0
    /\ graph_nodes = <<>>
    /\ graph_links = <<>>
    /\ example_loading = None
    /\ example_confirm = FALSE
    /\ bridge_graph = None
    /\ bridge_call = None
    /\ discover_results = None
    /\ fast_results = None
    /\ gateway = None
    /\ bridge = None
    /\ bridge_query = None
    /\ explorer_call \in ExplorerCalls
    /\ built = None
    /\ LsIdle
    /\ ValIdle
    /\ LaterIdle

NextExplorer == CyExplorerCall \/ FgExplorerCall

SpecExplorer == InitExplorer /\ [][NextExplorer]_vars

(***************************************************************************)
(* The set-intersection analysis on any web graph and any two groups.      *)
(***************************************************************************)
InitLinkSpam ==
    /\ app = "link_spam"
    /\ elements = <<>>
    /\ pending = None
    /\ confirm_displayed = FALSE
    /\ hop_counter = 0
    /\ graph_nodes = <<>>
    /\ graph_links = <<>>
    /\ example_loading = None
    /\ example_confirm = FALSE
    /\ bridge_graph = None
    /\ bridge_call = None
    /\ discover_results = None
    /\ fast_results = None
    /\ gateway = None
    /\ bridge = None
    /\ bridge_query = None
    /\ explorer_call = None
    /\ built = None
    /\ ls_links \in SUBSET LsPossibleLinks
    /\ ls_call \in LsCalls
    /\ ls_graph = None
    /\ ValIdle
    /\ LaterIdle

NextLinkSpam == BuildNetwork

SpecLinkSpam == InitLinkSpam /\ [][NextLinkSpam]_vars

(***************************************************************************)
(* validate_seeds on any vertices file and any list of typed seeds.        *)
(***************************************************************************)
InitValidate ==
    /\ app = "validate"
    /\ elements = <<>>
    /\ pending = None
    /\ confirm_displayed = FALSE
    /\ hop_counter = 0
    /\ graph_nodes = <<>>
    /\ graph_links = <<>>
    /\ example_loading = None
    /\ example_confirm = FALSE
    /\ bridge_graph = None
    /\ bridge_call = None
    /\ discover_results = None
    /\ fast_results = None
    /\ gateway = None
    /\ bridge = None
    /\ bridge_query = None
    /\ explorer_call = None
    /\ built = None
    /\ LsIdle
    /\ vertices_file \in VertexFiles
    /\ domain_set = None
    /\ val_call \in SeedTextLists
    /\ val_result = None
    /\ lines_read = 0
    /\ validations = 0
    /\ LaterIdle

NextValidate == WdValidateSeeds \/ GbValidateSeeds

SpecValidate == InitValidate /\ [][NextValidate]_vars

(***************************************************************************)
(* One add-to-viewport click on any textarea, in either explorer.          *)
(***************************************************************************)
InitImport ==
    /\ app \in {"cytoscape", "force"}
    /\ \E start \in ImportStartIds :
          /\ elements = IF app = "cytoscape"
                        THEN [i \in 1..Len(AscSeq(start)) |->
                                 CySeedNode(AscSeq(start)[i])]
                        ELSE <<>>
          /\ graph_nodes = IF app = "force"
                           THEN [i \in 1..Len(AscSeq(start)) |->
                                    FgSeedNode(AscSeq(start)[i])]
                           ELSE <<>>
    /\ pending = None
    /\ confirm_displayed = FALSE
    /\ hop_counter = 0
    /\ graph_links = <<>>
    /\ example_loading = None
    /\ example_confirm = FALSE
    /\ bridge_graph = None
    /\ bridge_call = None
    /\ discover_results = None
    /\ fast_results = None
    /\ gateway = None
    /\ bridge = None
    /\ bridge_query = None
    /\ explorer_call = None
    /\ built = None
    /\ LsIdle
    /\ ValIdle
    /\ import_call \in {Some(raw_domains) : raw_domains \in TextareaInputs}
    /\ validation_report = None
    /\ SesIdle
    /\ GbIdle
    /\ WdIdle

NextImport == CyImportReport \/ FgImportReport

SpecImport == InitImport /\ [][NextImport]_vars

(***************************************************************************)
(* Two sessions adding seeds and expanding, in any interleaving.           *)
(***************************************************************************)
\* what a session types: one known domain a click
SessionTextareas ==
    {<<raw>> : raw \in {r \in RawLines : r.form = "lower" /\ r.name \in {1, 2}}}

NextSessions ==
    \/ \E raw \in SessionTextareas : CyImportAndAdd(raw)
    \/ \E sel \in Selections(ExistingIds(elements)) :
          \E dir \in Directions : \E mc \in MinConnChoices(sel) :
             ContextMenuDiscover(sel, dir, mc)
    \/ ConfirmLargeDiscovery
    \/ CancelLargeDiscovery
    \/ \E raw \in SessionTextareas : FgImportAndAdd(raw)
    \/ \E sel \in Selections(FgIds(graph_nodes)) :
          \E dir \in Directions : \E mc \in MinConnChoices(sel) :
             FgDiscoverNeighbors(sel, dir, mc)
    \/ SwitchSession

SpecSessions == Init /\ [][NextSessions]_vars

(***************************************************************************)
(* Requests that call get_bridge, in any interleaving of their threads.    *)
(***************************************************************************)
InitGetBridge ==
    /\ app = "get_bridge"
    /\ elements = <<>>
    /\ pending = None
    /\ confirm_displayed = FALSE
    /\ hop_counter = 0
    /\ graph_nodes = <<>>
    /\ graph_links = <<>>
    /\ example_loading = None
    /\ example_confirm = FALSE
    /\ bridge_graph = None
    /\ bridge_call = None
    /\ discover_results = None
    /\ fast_results = None
    /\ ExtIdle

NextGetBridge ==
    \E t \in RequestThreads :
        \/ GetBridgeCall(t)
        \/ GetBridgeTest(t)
        \/ GetBridgeConstruct(t)
        \/ GetBridgeLoadCall(t)
        \/ GetBridgeLoaded(t)
        \/ GetBridgeLoadFails(t)
        \/ GetBridgeReturn(t)
        \/ RequestEnds(t)

SpecGetBridge == InitGetBridge /\ [][NextGetBridge]_vars

(***************************************************************************)
(* Example loading in either explorer, among seeds added and expands.      *)
(***************************************************************************)
NextExampleLoad ==
    \/ \E raw \in SessionTextareas : CyImportAndAdd(raw)
    \/ \E sel \in Selections(ExistingIds(elements)) :
          \E dir \in Directions : \E mc \in MinConnChoices(sel) :
             ContextMenuDiscover(sel, dir, mc)
    \/ ConfirmLargeDiscovery
    \/ CancelLargeDiscovery
    \/ \E example_type \in ExampleTypes : ConfirmExampleLoad(example_type)
    \/ LoadExampleGraph
    \/ CancelExampleLoad
    \/ \E raw \in SessionTextareas : FgImportAndAdd(raw)
    \/ \E sel \in Selections(FgIds(graph_nodes)) :
          \E dir \in Directions : \E mc \in MinConnChoices(sel) :
             FgDiscoverNeighbors(sel, dir, mc)
    \/ \E example_type \in ExampleTypes : FgConfirmExampleLoad(example_type)
    \/ FgLoadExampleGraph
    \/ FgCancelExampleLoad

SpecExampleLoad == Init /\ [][NextExampleLoad]_vars

(***************************************************************************)
(* Calls of WebgraphDiscovery.discover, one after the other.               *)
(***************************************************************************)
InitDiscover ==
    /\ app = "discover"
    /\ elements = <<>>
    /\ pending = None
    /\ confirm_displayed = FALSE
    /\ hop_counter = 0
    /\ graph_nodes = <<>>
    /\ graph_links = <<>>
    /\ example_loading = None
    /\ example_confirm = FALSE
    /\ bridge_graph = None
    /\ bridge_call = None
    /\ discover_results = None
    /\ fast_results = None
    /\ ExtIdle

NextDiscover ==
    \/ \E seed_domains \in DiscoverSeedLists, output_file \in OutputFiles :
          WdDiscoverCall(seed_domains, output_file)
    \/ WdWriteSeeds
    \/ WdWriteFails
    \/ \E content_exists \in BOOLEAN : WdResultsFile(content_exists)
    \/ WdResultsFileFails
    \/ \E run \in ToolRuns : WdRunTool(run)
    \/ \E results \in ResultsFound : WdReadResults(results)
    \/ WdFinally

SpecDiscover == InitDiscover /\ [][NextDiscover]_vars

(***************************************************************************)
(* The session graph as both explorers hold it.                            *)
(***************************************************************************)
Nodes == IF app = "cytoscape" THEN NodesOf(elements) ELSE graph_nodes
Edges == IF app = "cytoscape" THEN EdgesOf(elements) ELSE graph_links
Ids == IF app = "cytoscape" THEN ExistingIds(elements) ELSE FgIds(graph_nodes)
SeedNode(d) == IF app = "cytoscape" THEN CySeedNode(d) ELSE FgSeedNode(d)

\* the staged merge, when the pending-elements store holds one
Staged == pending[1]
StagedIds == {Staged.nodes[i].id : i \in 1..Len(Staged.nodes)}

\* steps, told apart by what only they do
DiscoverStep == hop_counter' = hop_counter + 1
DialogOpens == ~confirm_displayed /\ confirm_displayed'
RemovalStep == Ids \ Ids' # {}

NoDanglingEdge ==
    \A i \in 1..Len(Edges) : Edges[i].source \in Ids /\ Edges[i].target \in Ids

(***************************************************************************)
(* C1: after any sequence of session-graph operations every edge has both  *)
(* its source and its target among the ids of the nodes in the graph.      *)
(***************************************************************************)
C1_EveryEdgeHasItsEndpoints == NoDanglingEdge

(***************************************************************************)
(* C2: no two nodes of the graph share an id, also after a confirmation    *)
(* that finds a staged node already added in the meantime.                 *)
(***************************************************************************)
C2_UniqueNodeIds ==
    \A i, j \in 1..Len(Nodes) : Nodes[i].id = Nodes[j].id => i = j

\* a confirmed merge one of whose staged nodes had meanwhile been added as a seed
C2_ConfirmSkippedAddedSeed ==
    /\ app = "cytoscape"
    /\ pending # None
    /\ ~confirm_displayed
    /\ \E i \in 1..Len(Staged.nodes) :
          \E k \in 1..Len(elements) : elements[k] = Staged.nodes[i]
    /\ \E i \in 1..Len(Staged.nodes) :
          \E k \in 1..Len(Nodes) :
             Nodes[k].id = Staged.nodes[i].id /\ Nodes[k].type = "seed"

(***************************************************************************)
(* C3: large-result gating.  A discover of the Cytoscape explorer either   *)
(* merges at once, adding at most NODE_WARNING_THRESHOLD nodes and staging *)
(* nothing, or, when more than NODE_WARNING_THRESHOLD nodes are new,       *)
(* leaves the elements as they were and stages exactly the new nodes with  *)
(* the result's edges; a cancelled dialog leaves the elements unchanged,   *)
(* and a staged node enters the elements by a confirmation only.           *)
(***************************************************************************)
C3_LargeResultGating ==
    [][/\ (app = "cytoscape" /\ DiscoverStep) =>
             \/ /\ ~confirm_displayed'
                /\ pending' = None
                /\ Cardinality(Ids' \ Ids) <= NODE_WARNING_THRESHOLD
                /\ Len(elements') >= Len(elements)
                /\ SubSeq(elements', 1, Len(elements)) = elements
             \/ /\ confirm_displayed'
                /\ pending' # None
                /\ elements' = elements
                /\ Len(Staged'.nodes) > NODE_WARNING_THRESHOLD
                /\ Cardinality(StagedIds') = Len(Staged'.nodes)
                /\ StagedIds' \cap Ids = {}
                /\ \A i \in 1..Len(Staged'.edges) :
                      /\ Staged'.edges[i].source \in StagedIds' \cup Ids
                      /\ Staged'.edges[i].target \in StagedIds' \cup Ids
       /\ CancelLargeDiscovery => elements' = elements
       /\ (/\ app = "cytoscape"
           /\ pending # None
           /\ \E i \in 1..Len(Staged.nodes) :
                 /\ \E k \in 1..Len(elements') : elements'[k] = Staged.nodes[i]
                 /\ \A k \in 1..Len(elements) : elements[k] # Staged.nodes[i])
             => ConfirmLargeDiscovery
      ]_vars

\* a merge of threshold + 1 new nodes is staged and none of them is in the graph
C3_ThresholdPlusOneStaged ==
    /\ app = "cytoscape"
    /\ confirm_displayed
    /\ pending # None
    /\ Len(Staged.nodes) = NODE_WARNING_THRESHOLD + 1
    /\ StagedIds \cap Ids = {}

(***************************************************************************)
(* C4: while a merge is staged and the dialog is open, a discover request  *)
(* changes neither the elements nor the staged merge.                      *)
(***************************************************************************)
C4_DiscoverRejectedWhileAwaiting ==
    [][(app = "cytoscape" /\ confirm_displayed /\ DiscoverStep) =>
          /\ elements' = elements
          /\ pending' = pending
          /\ confirm_displayed'
      ]_vars

(***************************************************************************)
(* C5: once a confirmation has applied the staged merge, no staged merge   *)
(* remains and the dialog is closed.                                       *)
(***************************************************************************)
C5_ConfirmConsumesPending ==
    [][ConfirmLargeDiscovery => pending' = None /\ ~confirm_displayed']_vars

(***************************************************************************)
(* C6: cancelling leaves the elements unchanged, discards the staged merge *)
(* and closes the dialog.                                                  *)
(***************************************************************************)
C6_CancelDiscardsPending ==
    [][CancelLargeDiscovery =>
          /\ elements' = elements
          /\ pending' = None
          /\ ~confirm_displayed'
      ]_vars

(***************************************************************************)
(* C7: hop_counter is unchanged by a discover that only stages a merge, is *)
(* incremented by one when the merge is confirmed and is left alone when   *)
(* it is cancelled.                                                        *)
(***************************************************************************)
C7_HopPerAppliedExpansion ==
    [][/\ (app = "cytoscape" /\ DialogOpens) => hop_counter' = hop_counter
       /\ ConfirmLargeDiscovery => hop_counter' = hop_counter + 1
       /\ CancelLargeDiscovery => hop_counter' = hop_counter
      ]_vars

(***************************************************************************)
(* C8: a deletion yields in one update exactly the previous nodes whose id *)
(* is not deleted and exactly the previous edges with neither end deleted. *)
(***************************************************************************)
C8_DeleteIsOneUpdate ==
    [][LET ids == Ids \ Ids'
       IN  RemovalStep =>
              /\ Nodes' = SelectSeq(Nodes, LAMBDA n : n.id \notin ids)
              /\ Edges' = SelectSeq(Edges,
                              LAMBDA e : e.source \notin ids /\ e.target \notin ids)
              /\ \A i \in 1..Len(Edges') :
                    Edges'[i].source \notin ids /\ Edges'[i].target \notin ids
      ]_vars

\* a discovered node that lost its seed and, with it, every edge it had
C8_SeedAndItsEdgesGone ==
    /\ NoDanglingEdge
    /\ \E i \in 1..Len(Nodes) :
          /\ Nodes[i].type = "discovered"
          /\ \A k \in 1..Len(Edges) :
                Edges[k].source # Nodes[i].id /\ Edges[k].target # Nodes[i].id

(***************************************************************************)
(* C9: adding seeds is idempotent.  A step that adds seeds appends only    *)
(* seed nodes {hop 0} whose ids are new and pairwise distinct, and leaves  *)
(* every node and edge that was there as it was.                           *)
(***************************************************************************)
AddSeedsStep ==
    /\ hop_counter' = hop_counter
    /\ pending' = pending
    /\ confirm_displayed' = confirm_displayed
    /\ ~RemovalStep

C9_AddSeedsIdempotent ==
    [][AddSeedsStep =>
          /\ Edges' = Edges
          /\ Len(Nodes') >= Len(Nodes)
          /\ SubSeq(Nodes', 1, Len(Nodes)) = Nodes
          /\ \A i \in (Len(Nodes) + 1)..Len(Nodes') :
                /\ Nodes'[i] = SeedNode(Nodes'[i].id)
                /\ Nodes'[i].id \notin Ids
                /\ \A j \in (Len(Nodes) + 1)..Len(Nodes') :
                      Nodes'[j].id = Nodes'[i].id => j = i
      ]_vars

\* the graph after addSeeds([d, d]) and addSeeds([d]): one seed node d
C9_OneSeedNode ==
    /\ Len(Nodes) = 1
    /\ Nodes[1] = SeedNode(1)
    /\ Edges = <<>>

(***************************************************************************)
(* C10: a discover or a confirmation never overwrites a node: every node   *)
(* that was in the graph is still there unchanged, and no node of the new  *)
(* graph carries the id of an old node with other attributes.              *)
(***************************************************************************)
C10_ExistingNodesKept ==
    [][(DiscoverStep \/ ConfirmLargeDiscovery) =>
          /\ Len(Nodes') >= Len(Nodes)
          /\ SubSeq(Nodes', 1, Len(Nodes)) = Nodes
          /\ \A i \in 1..Len(Nodes') :
                Nodes'[i].id \in Ids =>
                   \E k \in 1..Len(Nodes) : Nodes[k] = Nodes'[i]
      ]_vars

\* seed 3 was in the result of a discover on seed 2 (or 2 in that of 3) and is still a seed
C10_SeedInResultStillSeed ==
    /\ \E k \in 1..Len(Edges) : Edges[k].source = 3 /\ Edges[k].target = 2
    /\ \E i \in 1..Len(Nodes) : Nodes[i].id = 3 /\ Nodes[i].type = "seed"
    /\ \E i \in 1..Len(Nodes) : Nodes[i].id = 2 /\ Nodes[i].type = "seed"

(***************************************************************************)
(* The nodes a step puts into the graph or stages for it.  Every discover  *)
(* and every confirmation appends to the nodes that were there.            *)
(***************************************************************************)
AddedNodes == SubSeq(Nodes', Len(Nodes) + 1, Len(Nodes'))

MergedNodes ==
    IF app = "cytoscape" /\ DialogOpens THEN Staged'.nodes ELSE AddedNodes

\* the step is the discover callback of the running program on these inputs
IsDiscoverOf(sel, dir, mc) ==
    \/ ContextMenuDiscover(sel, dir, mc)
    \/ FgDiscoverNeighbors(sel, dir, mc)

(***************************************************************************)
(* C11: every node an expand adds carries as connections the count the     *)
(* discovery result reports for its domain, for backlinks and outlinks.    *)
(***************************************************************************)
C11_ConnectionsFromResult ==
    [][DiscoverStep =>
          \A sel \in Selections(Ids) : \A dir \in Directions :
             \A mc \in MinConnChoices(sel) :
                IsDiscoverOf(sel, dir, mc) =>
                   LET result == Discover(sel, mc, dir)
                       merged == MergedNodes
                   IN  \A k \in 1..Len(merged) :
                          \E i \in 1..Len(result.nodes) :
                             /\ result.nodes[i].domain = merged[k].id
                             /\ result.nodes[i].connections
                                   = merged[k].connections
      ]_vars

(***************************************************************************)
(* C12: an expand that is applied at once increases hop_counter by exactly *)
(* one, and every node it adds is of type discovered with hop equal to the *)
(* hop_counter before the expand plus one.  Outside a confirmation, no     *)
(* other step adds a discovered node.                                      *)
(***************************************************************************)
C12_ImmediateExpandTagsHop ==
    [][/\ (hop_counter' # hop_counter /\ ~confirm_displayed') =>
             /\ hop_counter' = hop_counter + 1
             /\ \A k \in 1..Len(AddedNodes) :
                   /\ AddedNodes[k].type = "discovered"
                   /\ AddedNodes[k].hop = hop_counter + 1
       /\ (/\ ~RemovalStep
           /\ ~ConfirmLargeDiscovery
           /\ \E k \in 1..Len(AddedNodes) : AddedNodes[k].type = "discovered")
             => hop_counter' = hop_counter + 1
      ]_vars

\* a second expand was applied at once and its nodes are at hop 2
C12_SecondExpandAtHopTwo ==
    /\ hop_counter = 2
    /\ pending = None
    /\ ~confirm_displayed
    /\ \E k \in 1..Len(Nodes) :
          Nodes[k].type = "discovered" /\ Nodes[k].hop = 2

(***************************************************************************)
(* C13: the edges of the session graph form a set: no two edges have the   *)
(* same source and the same target, also after the same expand is repeated *)
(* on the same selection.                                                  *)
(***************************************************************************)
C13_EdgesFormASet ==
    \A i, j \in 1..Len(Edges) :
       (Edges[i].source = Edges[j].source /\ Edges[i].target = Edges[j].target)
          => i = j

(***************************************************************************)
(* C14: every node of the session graph carries an integer hop >= 0 and an *)
(* integer connections >= 0, and a seed node carries hop 0, connections 0. *)
(***************************************************************************)
C14_NodesCarryHopAndConnections ==
    \A k \in 1..Len(Nodes) :
       /\ "hop" \in DOMAIN Nodes[k]
       /\ Nodes[k].hop \in Nat
       /\ "connections" \in DOMAIN Nodes[k]
       /\ Nodes[k].connections \in Nat
       /\ Nodes[k].type = "seed" =>
             Nodes[k].hop = 0 /\ Nodes[k].connections = 0

\* the step replaces the session graph by an example graph
ExampleReplacesGraph ==
    \/ LoadExampleGraph
    \/ \E example_type \in ExampleTypes :
          ConfirmExampleLoad(example_type) /\ ~example_confirm'

(***************************************************************************)
(* C15: resetting the session leaves nothing of the previous session: no   *)
(* node and no edge of the previous graph, hop_counter 0, no staged merge  *)
(* and no open confirmation, from any reachable state.  The one reset of   *)
(* the explorer is the load of an example graph, which puts the example's  *)
(* elements in place of the graph.                                         *)
(***************************************************************************)
C15_ResetClearsSession ==
    [][ExampleReplacesGraph =>
          /\ \E example_type \in ExampleTypes :
                elements' = networkx_to_cytoscape(example_type)
          /\ hop_counter' = 0
          /\ pending' = None
          /\ ~confirm_displayed'
      ]_vars

(***************************************************************************)
(* Views of a GraphBridge call.                                            *)
(***************************************************************************)
ResolvedSeedIds == seed_ids(bridge_graph, bridge_call.seed_domains)
ResolvedSeeds == SeqRange(ResolvedSeedIds)
NeighborsOfSeed(s) ==
    SeqRange(java_neighbors(bridge_graph, s, bridge_call.direction))
\* the distinct resolved seeds whose neighbour list contains the domain
SeedsLinkedTo(d) == {s \in ResolvedSeeds : d \in NeighborsOfSeed(s)}
DiscoverReturned == discover_results # None
ResultOfDiscover == discover_results[1]
ResultDomains == {ResultOfDiscover[i].domain : i \in 1..Len(ResultOfDiscover)}

\* C16: the connections reported for a returned domain is the number of
\* distinct resolved seeds whose neighbour list contains the domain, a
\* neighbour met several times for one seed counting once.
C16_ConnectionsCountDistinctSeeds ==
    DiscoverReturned =>
        \A i \in 1..Len(ResultOfDiscover) :
            ResultOfDiscover[i].connections =
                Cardinality(SeedsLinkedTo(ResultOfDiscover[i].domain))

\* C17: neither discover nor discover_fast returns a resolved seed, whatever
\* the seed list, the threshold and the direction, seeds that link to each
\* other included.
C17_NoSeedInResults ==
    /\ DiscoverReturned => ResultDomains \cap ResolvedSeeds = {}
    /\ fast_results # None => SeqRange(fast_results[1]) \cap ResolvedSeeds = {}

\* both calls have returned domains for seeds of which one links to another
C17_SeedsLinkToEachOther ==
    /\ DiscoverReturned
    /\ fast_results # None
    /\ \E s \in ResolvedSeeds, t \in ResolvedSeeds :
          s # t /\ s \in NeighborsOfSeed(t)
    /\ ResultOfDiscover # <<>>
    /\ fast_results[1] # <<>>

\* C18: discover returns exactly the non-seed neighbours that at least
\* min_connections of the resolved seeds are linked to.
C18_ReturnedIffAtThreshold ==
    DiscoverReturned =>
        ResultDomains =
            {d \in BridgeVertices \ ResolvedSeeds :
                Cardinality(SeedsLinkedTo(d)) >= bridge_call.min_connections
                    /\ SeedsLinkedTo(d) # {}}

\* C19: the result of discover is in descending order of connections and,
\* where the connections are equal, in the order of the domains.
C19_SortedByConnectionsThenDomain ==
    DiscoverReturned =>
        \A i \in 1..Len(ResultOfDiscover), j \in 1..Len(ResultOfDiscover) :
            i < j =>
                \/ ResultOfDiscover[i].connections
                       > ResultOfDiscover[j].connections
                \/ /\ ResultOfDiscover[i].connections
                          = ResultOfDiscover[j].connections
                   /\ ResultOfDiscover[i].domain < ResultOfDiscover[j].domain

\* C20: every percentage (in hundredths of a percent) is the connections
\* over the number of resolved seeds times 100, to the nearest hundredth,
\* and is at most 100.
C20_PercentageOfResolvedSeeds ==
    DiscoverReturned =>
        \A i \in 1..Len(ResultOfDiscover) :
            LET p == ResultOfDiscover[i].percentage
                c == ResultOfDiscover[i].connections
                n == Len(ResolvedSeedIds)
                diff == p * n - c * 10000
            IN  /\ 2 * (IF diff < 0 THEN -diff ELSE diff) <= n
                /\ p <= 10000

(***************************************************************************)
(* Views of the last query of the bridge.                                  *)
(***************************************************************************)
LastQuery == bridge_query[1]
Asked(op) == bridge_query # None /\ LastQuery.op = op
AskedLoaded(op) == Asked(op) /\ LastQuery.self_graph # None
\* the seeds of the call that the Graph Store knows, as they were passed
ResolvableSeeds(seed_domains) ==
    SelectSeq(seed_domains, LAMBDA raw : domain_clean(raw) \in BridgeVertices)
\* the calls of the last query that fetch a neighbour list
NeighborListCalls ==
    SelectSeq(LastQuery.calls,
              LAMBDA c : c.op \in {"predecessors", "successors"})

\* C21: discover raises nothing for a seed the Graph Store cannot resolve,
\* returns what it returns for the resolvable seeds alone and fetches the
\* neighbour lists of these only; with no resolvable seed the result is
\* empty and no neighbour list is fetched.
C21_UnresolvedSeedsDropped ==
    AskedLoaded("discover") =>
        LET call == LastQuery.args
            kept == ResolvableSeeds(call.seed_domains)
        IN  /\ LastQuery.raised = None
            /\ LastQuery.value =
                  IF kept = <<>> THEN <<>>
                  ELSE discover(LastQuery.self_graph, kept,
                                call.min_connections, call.direction)
            /\ [i \in 1..Len(NeighborListCalls) |-> NeighborListCalls[i].arg]
                  = [i \in 1..Len(kept) |-> domain_clean(kept[i])]

\* discover has dropped an unknown seed and answered for the known one
C21_DroppedOneKeptOne ==
    /\ AskedLoaded("discover")
    /\ Len(ResolvableSeeds(LastQuery.args.seed_domains)) = 1
    /\ Len(LastQuery.args.seed_domains) = 2
    /\ LastQuery.value # <<>>

\* the seeds the handler of the form passes on
FormSeeds == ParseSeeds(LastQuery.args.seeds_text)
NoneFoundMessage(n) ==
    [text |-> "Error: None of the domains were found in the webgraph",
     n |-> n]
NoMatchMessage == [text |-> "No domains found matching criteria"]
NoValidSeedsLine == [text |-> "No valid seed domains found in graph"]

QueryOperations ==
    {"domain_to_id", "id_to_domain", "validate_seeds", "get_predecessors",
     "get_successors", "shared_predecessors", "shared_successors",
     "discover", "discover_fast"}

\* C23: while the graph is not loaded (never loaded, the load has failed,
\* or the bridge was shut down) every query operation raises the
\* "Graph not loaded" RuntimeError and has made no call to the Graph Store.
C23_QueriesFailWhenNotLoaded ==
    \A op \in QueryOperations :
        Asked(op) /\ LastQuery.self_graph = None =>
            /\ LastQuery.raised = Some("RuntimeError")
            /\ LastQuery.calls = <<>>
            /\ LastQuery.value = None

\* discover was asked of the bridge the form had made, with no gateway and
\* no graph (the load failed, or the bridge was shut down), and raised
C23_DiscoverRefusedUnloaded ==
    /\ Asked("discover")
    /\ LastQuery.self_graph = None
    /\ LastQuery.raised = Some("RuntimeError")
    /\ bridge # None
    /\ gateway = None

PairsOf(edges) == {<<edges[i].source, edges[i].target>> : i \in 1..Len(edges)}

RECURSIVE SumConnections(_)
SumConnections(nodes) ==
    IF nodes = <<>> THEN 0
    ELSE Head(nodes).connections + SumConnections(Tail(nodes))

\* the links of the store between the returned domains and the seeds
ObservedLinks(returned, seeds, direction) ==
    {pr \in (returned \X seeds) \cup (seeds \X returned) :
        IF direction = "backlinks"
        THEN pr[1] \in returned /\ pr[2] \in seeds
                /\ pr[1] \in Predecessors(pr[2])
        ELSE pr[1] \in seeds /\ pr[2] \in returned
                /\ pr[1] \in Predecessors(pr[2])}

\* what the discover_neighbors call has built
BuiltEdges ==
    IF "edges" \in DOMAIN built[1] THEN built[1].edges ELSE built[1].links

C25_EdgesAreObservedLinks ==
    built # None =>
        LET result == Discover(explorer_call.seed_domains,
                               explorer_call.min_connections,
                               explorer_call.direction)
            returned == {result.nodes[i].domain : i \in 1..Len(result.nodes)}
            observed == ObservedLinks(returned,
                            explorer_call.seed_domains \cap StoreDomains,
                            explorer_call.direction)
        IN  /\ PairsOf(BuiltEdges) = observed
            /\ Len(BuiltEdges) = Cardinality(observed)
            /\ Len(BuiltEdges) = SumConnections(result.nodes)
            /\ {built[1].nodes[i].id : i \in 1..Len(built[1].nodes)} = returned

\* discover_neighbors was called with two seeds and has returned a domain
\* that links to one of them only, next to domains that link to both
C25_NeighbourOfOneSeedOnly ==
    /\ built # None
    /\ explorer_call.seed_domains = {1, 2}
    /\ {<<3, 2>>, <<11, 1>>, <<11, 2>>} \subseteq PairsOf(BuiltEdges)
    /\ <<3, 1>> \notin PairsOf(BuiltEdges)

(***************************************************************************)
(* Views of the set-intersection analysis.                                 *)
(***************************************************************************)
LsGraph == ls_graph[1]
LsNodes == DOMAIN LsGraph.node
LsEdges == DOMAIN LsGraph.edge
GroupA == ls_call.casino_domains \cap LsStoreDomains
GroupB == ls_call.misinfo_domains \cap LsStoreDomains
\* the seeds of the group that the domain links to
LinkedOf(d, group) == {t \in group : <<d, t>> \in ls_links}
\* the domains of the backlink discovery result of a group
BacklinkResult(group) ==
    {d \in LsStoreDomains \ group :
        /\ LinkedOf(d, group) # {}
        /\ Cardinality(LinkedOf(d, group)) >= ls_call.min_connections}
Connectors == {n \in LsNodes : LsGraph.node[n].node_type = "link_spam"}
Backlinkers(t) == {d \in LsStoreDomains : <<d, t>> \in ls_links}

\* C26: the shared connectors of the output are exactly the domains in both
\* backlink discovery results: the domains outside a group that backlink to
\* at least min_connections of its seeds, for group A and for group B.
C26_SharedAreInBothResults ==
    ls_graph # None =>
        Connectors = BacklinkResult(GroupA) \cap BacklinkResult(GroupB)

\* group A is backlinked by {x, y}, group B by {y, z}, both thresholds are 1
\* and the shared set is {y}
C26_SharedIsExactlyY ==
    /\ ls_graph # None
    /\ ls_call.min_connections = 1
    /\ GroupA = {1} /\ GroupB = {3}
    /\ Backlinkers(1) = {4, 5}
    /\ Backlinkers(3) = {5, 6}
    /\ Connectors = {5}

\* C27: a seed of either group is a node of the output exactly if a shared
\* connector has an edge to it; every edge runs from a shared connector to
\* such a seed; a domain in only one of the two discovery results is no
\* connector node and no source of an edge, and nothing else is a node.
C27_OnlyLinkedSeedsAndSharedConnectors ==
    ls_graph # None =>
        LET in_one == (BacklinkResult(GroupA) \cup BacklinkResult(GroupB))
                         \ (BacklinkResult(GroupA) \cap BacklinkResult(GroupB))
        IN  /\ \A t \in GroupA \cup GroupB :
                  t \in LsNodes <=> \E y \in Connectors : <<y, t>> \in LsEdges
            /\ \A e \in LsEdges :
                  /\ e[1] \in Connectors
                  /\ e[2] \in (GroupA \cup GroupB) \cap LsNodes
            /\ \A d \in in_one :
                  /\ d \notin Connectors
                  /\ \A e \in LsEdges : e[1] # d
                  /\ d \notin GroupA \cup GroupB => d \notin LsNodes
            /\ LsNodes \subseteq Connectors \cup GroupA \cup GroupB

\* a seed of group A is left out of the output although another seed of the
\* group and a domain that backlinks to the left-out seed only are there to
\* be seen
C27_SeedPruned ==
    /\ ls_graph # None
    /\ GroupA = {1, 2}
    /\ 1 \in LsNodes
    /\ 2 \notin LsNodes
    /\ Backlinkers(2) # {}

\* C28: a shared connector's casino and misinformation counts are the
\* numbers of its edges to the seeds of group A and of group B in the two
\* discovery results, its total is their sum, and with disjoint groups the
\* total is the number of edges that leave it in the output.
C28_ConnectorCounts ==
    ls_graph # None =>
        \A y \in Connectors :
            LET attrs == LsGraph.node[y]
            IN  /\ attrs.casino_connections
                      = Cardinality(LinkedOf(y, GroupA))
                /\ attrs.misinfo_connections
                      = Cardinality(LinkedOf(y, GroupB))
                /\ attrs.total_connections
                      = attrs.casino_connections + attrs.misinfo_connections
                /\ GroupA \cap GroupB = {} =>
                      attrs.total_connections
                         = Cardinality({e \in LsEdges : e[1] = y})

\* a connector links to two seeds of one group and one of the other, the
\* groups being disjoint
C28_TwoAndOne ==
    /\ ls_graph # None
    /\ GroupA \cap GroupB = {}
    /\ \E y \in Connectors :
          /\ LsGraph.node[y].casino_connections = 2
          /\ LsGraph.node[y].misinfo_connections = 1
          /\ LsGraph.node[y].total_connections = 3

(***************************************************************************)
(* Views of seed validation.                                               *)
(***************************************************************************)
\* the domains the store holds, read off the entries the file was made of
StoreTexts ==
    {VertexEntries[i].domain :
        i \in {j \in 1..Len(VertexEntries) :
                  \E k \in 1..Len(vertices_file) :
                      vertices_file[k][2] = VertexEntries[j].reversed}}

\* trimming and lowercasing, said without the string methods
Trimmed(raw) ==
    LET inked == {i \in 1..Len(raw) : raw[i] # " "}
    IN  IF inked = {} THEN <<>>
        ELSE SubSeq(raw, CHOOSE i \in inked : \A j \in inked : i <= j,
                         CHOOSE i \in inked : \A j \in inked : i >= j)
Lowercased(text) ==
    [i \in 1..Len(text) |->
        IF text[i] \in {"A", "B"}
        THEN [upper \in {"A", "B"} |-> IF upper = "A" THEN "a" ELSE "b"][text[i]]
        ELSE text[i]]
NormalizedInput == [i \in 1..Len(val_call) |-> Lowercased(Trimmed(val_call[i]))]

\* the line of the vertices file after which every seed has been found
LastNeededLine ==
    CHOOSE k \in 0..Len(vertices_file) :
        /\ \A i \in 1..Len(val_call) :
              \E j \in 1..k :
                  VertexEntries[CHOOSE e \in 1..Len(VertexEntries) :
                      VertexEntries[e].reversed = vertices_file[j][2]].domain
                     = NormalizedInput[i]
        /\ \A smaller \in 0..(k - 1) :
              \E i \in 1..Len(val_call) :
                  \A j \in 1..smaller :
                      VertexEntries[CHOOSE e \in 1..Len(VertexEntries) :
                          VertexEntries[e].reversed = vertices_file[j][2]].domain
                         # NormalizedInput[i]

\* C29: when every one of the N seeds is in the store, validation reads no
\* line of the vertices file after the one at which all N have been found.
C29_StopsOnceAllFound ==
    (/\ val_result # None
     /\ val_call # <<>>
     /\ \A i \in 1..Len(val_call) : NormalizedInput[i] \in StoreTexts)
        => lines_read <= LastNeededLine

\* C30: validate_seeds trims and lowercases every input and puts each
\* cleaned input in exactly one of found and not_found, in found exactly if
\* the store holds it; the two lists share no entry and together have as
\* many entries as the input.
C30_FoundAndNotFoundPartitionInput ==
    val_result # None =>
        LET found == val_result[1].found
            not_found == val_result[1].not_found
        IN  /\ \A i \in 1..Len(val_call) :
                  LET d == NormalizedInput[i]
                  IN  /\ d \in SeqRange(found) <=> d \in StoreTexts
                      /\ d \in SeqRange(not_found) <=> d \notin StoreTexts
            /\ SeqRange(found) \cup SeqRange(not_found)
                  = SeqRange(NormalizedInput)
            /\ SeqRange(found) \cap SeqRange(not_found) = {}
            /\ Len(found) + Len(not_found) = Len(val_call)

\* a seed typed in upper case between blanks is found under its clean name
\* and another seed is not found, by either class
C30_PaddedUpperCaseFound ==
    /\ val_result # None
    /\ val_call = << <<" ", "B", " ">>, <<"a", ".", "b">> >>
    /\ val_result[1].found = << <<"b">> >>
    /\ val_result[1].not_found = << <<"a", ".", "b">> >>

(***************************************************************************)
(* Views of an add-to-viewport click.                                      *)
(***************************************************************************)
Entered == Len(import_call[1])
SeedNodesNow == IF app = "cytoscape" THEN Len(elements) ELSE Len(graph_nodes)
ReportOf == validation_report[1]

\* the click of the step that has just been handled
AddClickStep == validation_report = None /\ validation_report' # None

\* C31: whenever an add-to-viewport click adds fewer domains to the graph
\* than were entered, the report with the four counts is displayed, and the
\* counts of a displayed report are the true ones and are ordered
\* added <= found <= well-formed <= total.
C31_PartialSuccessReported ==
    [][AddClickStep =>
          LET added == SeedNodesNow' - SeedNodesNow
              report == validation_report'[1]
          IN  /\ added < Entered => report.displayed
              /\ report.displayed =>
                    LET m == report.message[1]
                    IN  /\ m.total_input = Entered
                        /\ m.added = added
                        /\ m.added <= m.in_cc
                        /\ m.in_cc <= m.well_formed
                        /\ m.well_formed <= m.total_input]_vars

\* C34: no discover step of the force-graph explorer adds more than
\* NODE_WARNING_THRESHOLD nodes to the graph; a larger result waits for a
\* confirmation.
C34_ForceGraphLargeResultGated ==
    [][(app = "force" /\ DiscoverStep) =>
          Cardinality(FgIds(graph_nodes') \ FgIds(graph_nodes))
             <= NODE_WARNING_THRESHOLD]_vars

\* C33: the hop counter belongs to one session graph: when a session is
\* served again it finds the hop counter as it left it (0 if it has not
\* been served yet), whatever the other session has expanded meanwhile, so
\* the hop its next expand gives to new nodes does not depend on the other
\* session.
C33_HopCounterOwnedBySession ==
    [][active_session' # active_session =>
          hop_counter' = other_session.hop_left]_vars

\* C35: over any interleaving of requests, one GraphBridge is constructed
\* and load_graph is called once at most, and every request is given the
\* same bridge.
C35_BridgeLoadedOnce ==
    /\ Len(gb_objects) <= 1
    /\ \A i \in 1..Len(gb_objects) : gb_objects[i].loads <= 1
    /\ \A t, u \in RequestThreads :
          (gb_request[t].b # None /\ gb_request[u].b # None)
             => gb_request[t].b = gb_request[u].b

\* C36: a bridge that get_bridge has returned has its graph loaded.
C36_ReturnedBridgeIsLoaded ==
    \A t \in RequestThreads :
        AtPc(t, "got") => gb_objects[gb_request[t].b[1]].graph_loaded

(***************************************************************************)
(* Views of example loading.                                               *)
(***************************************************************************)
ExampleClicked(example_type) ==
    ConfirmExampleLoad(example_type) \/ FgConfirmExampleLoad(example_type)
ExampleConfirmed == LoadExampleGraph \/ FgLoadExampleGraph
ExampleDismissed == CancelExampleLoad \/ FgCancelExampleLoad
GraphUnchanged == Nodes' = Nodes /\ Edges' = Edges
\* the session graph is the graph of the example
ShowsExample(nodes, edges, example_type) ==
    IF app = "cytoscape"
    THEN /\ nodes = NodesOf(networkx_to_cytoscape(example_type))
         /\ edges = EdgesOf(networkx_to_cytoscape(example_type))
    ELSE /\ nodes = FgExampleGraph(example_type).nodes
         /\ edges = FgExampleGraph(example_type).links

LabelsLookedUp ==
    {LastQuery.calls[i].arg :
        i \in {j \in 1..Len(LastQuery.calls) :
                  LastQuery.calls[j].op = "vertexLabelToId"}}
\* the lines of the textbox that are domain names
WellFormedLines ==
    {l \in SeqRange(LastQuery.args.seeds_text) :
        l.form \notin {"blank", "malformed"}}

\* C32: of what is typed into the form only the well-formed domains are
\* passed to a lookup of the Graph Store: every label looked up is the name
\* of a well-formed line of the textbox.
C32_OnlyWellFormedLookedUp ==
    Asked("discover_domains") =>
        LabelsLookedUp \subseteq {l.name : l \in WellFormedLines}

(***************************************************************************)
(* Views of the seeds file of WebgraphDiscovery.discover.                  *)
(***************************************************************************)
DiscoverFinished == wd_discover.pc = "done"

\* C38: a call of discover that has ended after its seeds file was written
\* has removed its seeds file, whichever way it ended.
C38_SeedsFileRemoved ==
    DiscoverFinished /\ wd_discover.written => wd_discover.seeds_file = None

(***************************************************************************)
(* Views of the shared-neighbour queries.                                  *)
(***************************************************************************)
\* the thresholds handed to sharedPredecessors / sharedSuccessors
ThresholdsPassed ==
    {LastQuery.calls[i].arg[2] :
        i \in {j \in 1..Len(LastQuery.calls) :
                  LastQuery.calls[j].op
                      \in {"sharedPredecessors", "sharedSuccessors"}}}

\* C39: shared_predecessors and shared_successors called without
\* min_shared use the number of domains given as the threshold, and return
\* nothing when one of the given domains is not in the graph.
C39_DefaultThresholdIsNumberGiven ==
    \A op \in {"shared_predecessors", "shared_successors"} :
        AskedLoaded(op) /\ LastQuery.args.min_shared = None =>
            /\ ThresholdsPassed \subseteq {Len(LastQuery.args.domains)}
            /\ (\E d \in SeqRange(LastQuery.args.domains) :
                   d \notin BridgeVertices)
                  => LastQuery.value = <<>>

====
